---- MODULE Spec2Model ----
(***************************************************************************)
(* A model of the orgparse parsing engine (Block::parse, Keyword::parse,   *)
(* MacroDef::parse over the NodePool arena) and of the round-trip Org       *)
(* exporter (export_tree / export_rec / write_str).                         *)
(*                                                                          *)
(* Text is modelled byte for byte: a buffer is a sequence of one-character  *)
(* strings, a byte offset i of the source is element i+1 of the sequence.   *)
(* Option<T> is a sequence of length 0 (None) or 1 (Some).                  *)
(***************************************************************************)
EXTENDS Integers, Sequences, FiniteSets, TLC

VARIABLES
    input,      \* the document given to the parse (round 1)
    text,       \* the buffer being parsed in the current round
    parser,     \* Parser: [pool, macros, keywords]
    cursor,     \* byte offset of the top-level parse loop
    content,    \* content_vec of the root: the ids parsed at top level so far
    pc,         \* position of the driver
    round,      \* 1: first parse/export, 2: re-parse/re-export
    ex,         \* the Org exporter object
    ret,        \* what export_tree returned
    out1,       \* text of the first export
    calls,      \* the calls made directly on a rule, the pool or the sink, with outcomes
    properties  \* the PropertyDrawer handed to parse_node_property

vars == <<input, text, parser, cursor, content, pc, round, ex, ret, out1, calls,
         properties>>

(***************************************************************************)
(* Bounds of the model.                                                     *)
(***************************************************************************)
MaxLines == 4     \* lines of a parsed document

(***************************************************************************)
(* Plain helpers on sequences and options.                                  *)
(***************************************************************************)
None == <<>>
Some(x) == <<x>>
IsSome(o) == Len(o) = 1
Unwrap(o) == o[1]

SeqRange(s) == {s[i] : i \in 1..Len(s)}

Min(a, b) == IF a <= b THEN a ELSE b
Max(a, b) == IF a >= b THEN a ELSE b

RECURSIVE Flatten(_)
Flatten(ss) == IF Len(ss) = 0 THEN <<>> ELSE Head(ss) \o Flatten(Tail(ss))

RECURSIVE Repeat(_, _)
Repeat(s, n) == IF n <= 0 THEN <<>> ELSE s \o Repeat(s, n - 1)

\* byte_arr[a..b] of the source: the bytes at offsets a .. b-1
Slice(buf, a, b) == IF b <= a THEN <<>> ELSE SubSeq(buf, a + 1, b)

EmptyMap == [k \in {} |-> k]
MapInsert(m, k, v) == [x \in (DOMAIN m) \cup {k} |-> IF x = k THEN v ELSE m[x]]

(***************************************************************************)
(* Bytes: crate::constants and the u8 predicates of the standard library.   *)
(***************************************************************************)
NEWLINE == "\n"
COLON == ":"
HYPHEN == "-"
UNDERSCORE == "_"
VBAR == "|"

UPPER == <<"A","B","C","D","E","F","G","H","I","J","K","L","M",
           "N","O","P","Q","R","S","T","U","V","W","X","Y","Z">>
LOWER == <<"a","b","c","d","e","f","g","h","i","j","k","l","m",
           "n","o","p","q","r","s","t","u","v","w","x","y","z">>
DIGITS == <<"0","1","2","3","4","5","6","7","8","9">>

is_ascii_whitespace(c) == c \in {" ", "\t", "\n", "\r", "\f"}
is_ascii_digit(c) == c \in SeqRange(DIGITS)
is_ascii_alphabetic(c) == c \in SeqRange(UPPER) \cup SeqRange(LOWER)
is_ascii_alphanumeric(c) == is_ascii_alphabetic(c) \/ is_ascii_digit(c)

\* value of an ASCII digit: byte - 48
DigitValue(c) == (CHOOSE i \in 1..10 : DIGITS[i] = c) - 1

to_ascii_lowercase_byte(c) ==
    IF c \in SeqRange(UPPER)
    THEN LOWER[CHOOSE i \in 1..26 : UPPER[i] = c]
    ELSE c

to_lowercase(s) == [i \in 1..Len(s) |-> to_ascii_lowercase_byte(s[i])]

\* str::trim on ASCII text
RECURSIVE trim_start(_)
trim_start(s) ==
    IF Len(s) > 0 /\ is_ascii_whitespace(s[1]) THEN trim_start(Tail(s)) ELSE s
RECURSIVE trim_end(_)
trim_end(s) ==
    IF Len(s) > 0 /\ is_ascii_whitespace(s[Len(s)])
    THEN trim_end(SubSeq(s, 1, Len(s) - 1)) ELSE s
trim(s) == trim_end(trim_start(s))

starts_with(buf, lim, index, lit) ==
    /\ index + Len(lit) <= lim
    /\ \A i \in 1..Len(lit) : buf[index + i] = lit[i]

ends_with_newline(s) == Len(s) > 0 /\ s[Len(s)] = NEWLINE

(***************************************************************************)
(* NodePool (node_pool.rs) and Node (types.rs).  A NodeID n is slot n + 1   *)
(* of inner_vec.                                                            *)
(***************************************************************************)
Node(obj, start, end, parent) ==
    [obj |-> obj, start |-> start, end |-> end, parent |-> parent]

\* impl Default for Node
DefaultNode == Node([expr |-> "BlankLine"], 0, 0, None)

NewPool == [inner_vec |-> <<>>, counter |-> 0]

\* NodePool::alloc: [pool, id]
alloc(pool, obj, start, end, parent) ==
    [pool |-> [inner_vec |-> Append(pool.inner_vec, Node(obj, start, end, parent)),
               counter |-> pool.counter + 1],
     id |-> pool.counter]

\* a variant of reserve_id that pushes the placeholder and forgets the counter
reserve_id_keeps_counter(pool) ==
    [pool |-> [inner_vec |-> Append(pool.inner_vec, DefaultNode),
               counter |-> pool.counter],
     id |-> pool.counter]

\* NodePool::reserve_id: [pool, id]
reserve_id(pool) ==
    [pool |-> [inner_vec |-> Append(pool.inner_vec, DefaultNode),
               counter |-> pool.counter + 1],
     id |-> pool.counter]

\* a variant of alloc_with_id that pushes the node instead of overwriting the slot
alloc_with_id_pushes(pool, obj, start, end, parent, target_id) ==
    [pool |-> [inner_vec |-> Append(pool.inner_vec, Node(obj, start, end, parent)),
               counter |-> pool.counter + 1],
     id |-> target_id, panic |-> FALSE]

\* a variant of alloc_with_id that records the slot itself as the parent
alloc_with_id_self_parent(pool, obj, start, end, parent, target_id) ==
    [pool |-> [pool EXCEPT !.inner_vec[target_id + 1] =
                              Node(obj, start, end, Some(target_id))],
     id |-> target_id, panic |-> FALSE]

\* NodePool::alloc_with_id: [pool, id, panic].  self.inner_vec[target_id] is an
\* index into the Vec: it panics for a target that is not a slot, before
\* anything is written.
alloc_with_id(pool, obj, start, end, parent, target_id) ==
    IF target_id < Len(pool.inner_vec)
    THEN [pool |-> [pool EXCEPT !.inner_vec[target_id + 1] =
                                   Node(obj, start, end, parent)],
          id |-> target_id, panic |-> FALSE]
    ELSE [pool |-> pool, id |-> target_id, panic |-> TRUE]

\* impl Index<NodeID> for NodePool
PoolAt(pool, id) == pool.inner_vec[id + 1]

\* Expr::children_mut, called at node_pool.rs:129 and defined outside the
\* files at hand: the field holding the child list of a branch payload, None
\* for a payload without one
children_mut(obj) ==
    IF "children" \in DOMAIN obj THEN Some("children")
    ELSE IF obj.expr = "Block" /\ ~obj.lesser THEN Some("contents")
    ELSE None

\* Iterator::position: the first index (from 1) holding x
position(q, x) ==
    IF \E i \in 1..Len(q) : q[i] = x
    THEN Some(CHOOSE i \in 1..Len(q) : q[i] = x /\ \A j \in 1..(i - 1) : q[j] # x)
    ELSE None

\* a variant of Vec::remove that drops every occurrence of the value at index
remove_every(q, i) == SelectSeq(q, LAMBDA x : x # q[i])

\* Vec::remove(index)
remove(q, i) == SubSeq(q, 1, i - 1) \o SubSeq(q, i + 1, Len(q))

\* NodePool::delete_node (node_pool.rs 125-132): [pool, panic].  The two
\* index expressions and the three unwrap() calls panic before the list is
\* touched.
delete_node(pool, index_id) ==
    LET Found(par_id, field, children, index) ==
          IF ~IsSome(index) THEN [pool |-> pool, panic |-> TRUE]
          ELSE [pool |-> [pool EXCEPT !.inner_vec[par_id + 1].obj[field] =
                                         remove(children, Unwrap(index))],
                panic |-> FALSE]
        Children(par_id, par_node, field) ==
          IF ~IsSome(field) THEN [pool |-> pool, panic |-> TRUE]
          ELSE Found(par_id, Unwrap(field), par_node.obj[Unwrap(field)],
                     position(par_node.obj[Unwrap(field)], index_id))
        Parent(par) ==
          IF ~IsSome(par) \/ Unwrap(par) >= Len(pool.inner_vec)
          THEN [pool |-> pool, panic |-> TRUE]
          ELSE Children(Unwrap(par), PoolAt(pool, Unwrap(par)),
                        children_mut(PoolAt(pool, Unwrap(par)).obj))
    IN IF index_id >= Len(pool.inner_vec) THEN [pool |-> pool, panic |-> TRUE]
       ELSE Parent(PoolAt(pool, index_id).parent)

NewParser == [pool |-> NewPool, macros |-> EmptyMap, keywords |-> EmptyMap]

\* NodePool::root_id
RootId == 0

(***************************************************************************)
(* Cursor / utils match primitives.  A buffer view is (buf, lim): the       *)
(* slice byte_arr[..lim].  Results: [ok, end, obj] (Match) or [ok, err].    *)
(***************************************************************************)
MatchOk(start, end, obj) == [ok |-> TRUE, start |-> start, end |-> end, obj |-> obj]
MatchErr(e) == [ok |-> FALSE, err |-> e]

\* word: the index after the literal, or InvalidLogic
word(buf, lim, index, lit) ==
    IF starts_with(buf, lim, index, lit)
    THEN [ok |-> TRUE, end |-> index + Len(lit)]
    ELSE MatchErr("InvalidLogic")

\* first offset >= index within the view whose byte is in the set stop; lim if none
RECURSIVE ScanUntil(_, _, _, _)
ScanUntil(buf, lim, index, stop) ==
    IF index >= lim THEN lim
    ELSE IF buf[index + 1] \in stop THEN index
    ELSE ScanUntil(buf, lim, index + 1, stop)

AllBytes(buf) == SeqRange(buf)

\* fn_until(pred): pred given as the set of bytes it accepts
fn_until(buf, lim, index, stop) ==
    LET Found(e) == IF e >= lim THEN MatchErr("EofError")
                    ELSE MatchOk(index, e, Slice(buf, index, e))
    IN Found(ScanUntil(buf, lim, index, stop))

\* fn_while(pred): scan while the byte is in the set keep
fn_while(buf, lim, index, keep) ==
    fn_until(buf, lim, index, AllBytes(buf) \ keep)

\* skip_ws: past horizontal whitespace, never fails
skip_ws(buf, lim, index) == ScanUntil(buf, lim, index, AllBytes(buf) \ {" ", "\t"})

WhitespaceBytes(buf) == {c \in AllBytes(buf) : is_ascii_whitespace(c)}

\* Cursor::peek(n): EofError past the end of the view
peek(buf, lim, index, n) ==
    IF index + n >= lim THEN MatchErr("EofError")
    ELSE [ok |-> TRUE, obj |-> buf[index + n + 1]]

(***************************************************************************)
(* Results of the grammar rules: the parser state travels with the result,  *)
(* since a rule mutates the pool and the tables in place.                   *)
(*   ok:    the rule matched and allocated node id                          *)
(*   err:   the rule returned a MatchError                                  *)
(*   abort: the rule panicked (unreachable!, index out of range)            *)
(***************************************************************************)
POk(P, id) == [tag |-> "ok", P |-> P, id |-> id]
PErr(P, e) == [tag |-> "err", P |-> P, err |-> e]
PAbort(P, why) == [tag |-> "abort", P |-> P, why |-> why]

(***************************************************************************)
(* Literals of the grammar.                                                 *)
(***************************************************************************)
S_begin == <<"#","+","b","e","g","i","n","_">>
S_end == <<"#","+","e","n","d","_">>
S_center == <<"c","e","n","t","e","r">>
S_quote == <<"q","u","o","t","e">>
S_comment == <<"c","o","m","m","e","n","t">>
S_example == <<"e","x","a","m","p","l","e">>
S_export == <<"e","x","p","o","r","t">>
S_verse == <<"v","e","r","s","e">>
S_src == <<"s","r","c">>
S_hashplus == <<"#","+">>
S_attr == <<"a","t","t","r","_">>
S_macro == <<"m","a","c","r","o">>
S_name == <<"n","a","m","e">>
S_caption == <<"c","a","p","t","i","o","n">>
S_include == <<"i","n","c","l","u","d","e">>

(***************************************************************************)
(* BlockKind (block.rs).  A kind is [kind, arg]: arg is the language of     *)
(* Src and the written name of Special.                                     *)
(***************************************************************************)
BlockKind(k, arg) == [kind |-> k, arg |-> arg]

is_lesser(bk) == bk.kind \in {"Comment", "Example", "Export", "Src", "Verse"}

\* BlockKind::to_end: Some(needle), None for Special
to_end(bk) ==
    CASE bk.kind = "Center" -> Some(S_end \o S_center \o <<NEWLINE>>)
      [] bk.kind = "Quote" -> Some(S_end \o S_quote \o <<NEWLINE>>)
      [] bk.kind = "Comment" -> Some(S_end \o S_comment \o <<NEWLINE>>)
      [] bk.kind = "Example" -> Some(S_end \o S_example \o <<NEWLINE>>)
      [] bk.kind = "Export" -> Some(S_end \o S_export \o <<NEWLINE>>)
      [] bk.kind = "Src" -> Some(S_end \o S_src \o <<NEWLINE>>)
      [] bk.kind = "Verse" -> Some(S_end \o S_verse \o <<NEWLINE>>)
      [] OTHER -> None

\* impl From<&str> for BlockKind: [unreachable, kind]
BlockKindFrom(value) ==
    LET Match(l) ==
          CASE l = S_center -> [unreachable |-> FALSE, bk |-> BlockKind("Center", <<>>)]
            [] l = S_quote -> [unreachable |-> FALSE, bk |-> BlockKind("Quote", <<>>)]
            [] l = S_comment -> [unreachable |-> FALSE, bk |-> BlockKind("Comment", <<>>)]
            [] l = S_example -> [unreachable |-> FALSE, bk |-> BlockKind("Example", <<>>)]
            [] l = S_export -> [unreachable |-> FALSE, bk |-> BlockKind("Export", <<>>)]
            [] l = S_verse -> [unreachable |-> FALSE, bk |-> BlockKind("Verse", <<>>)]
            [] l = S_src -> [unreachable |-> TRUE, bk |-> BlockKind("Src", <<>>)]
            [] OTHER -> [unreachable |-> FALSE, bk |-> BlockKind("Special", value)]
    IN Match(to_lowercase(value))

\* memmem::find_iter(&byte_arr[curr_ind..], needle): the offsets, relative to
\* curr_ind, of the non-overlapping occurrences, left to right
RECURSIVE FindFrom(_, _, _, _, _)
FindFrom(buf, lim, curr_ind, pos, needle) ==
    IF curr_ind + pos + Len(needle) > lim THEN <<>>
    ELSE IF starts_with(buf, lim, curr_ind + pos, needle)
         THEN <<pos>> \o FindFrom(buf, lim, curr_ind, pos + Max(1, Len(needle)), needle)
         ELSE FindFrom(buf, lim, curr_ind, pos + 1, needle)

find_iter(buf, lim, curr_ind, needle) == FindFrom(buf, lim, curr_ind, 0, needle)

\* the inner while of the end-marker search (block.rs 96-101):
\* [tag |-> "loc", loc] | [tag |-> "reject"] | [tag |-> "abort"]
RECURSIVE WalkBack(_, _, _)

\* a variant of the walk that steps over a newline as over other whitespace
WalkBack_over_newline(buf, lim, moving_loc) ==
    IF moving_loc < 0 \/ moving_loc >= lim THEN [tag |-> "abort"]
    ELSE IF ~is_ascii_whitespace(buf[moving_loc + 1]) THEN [tag |-> "reject"]
    ELSE WalkBack(buf, lim, moving_loc - 1)

WalkBack(buf, lim, moving_loc) ==
    IF moving_loc < 0 \/ moving_loc >= lim THEN [tag |-> "abort"]
    ELSE IF buf[moving_loc + 1] = NEWLINE THEN [tag |-> "loc", loc |-> moving_loc]
    ELSE IF ~is_ascii_whitespace(buf[moving_loc + 1]) THEN [tag |-> "reject"]
    ELSE WalkBack(buf, lim, moving_loc - 1)

\* a variant of the end offset that forgets the base curr_ind of the search
BlockEndOffset_relative(potential_loc, curr_ind, needle_len) ==
    potential_loc + needle_len

\* block.rs 103: end = potential_loc + curr_ind + needle.len()
BlockEndOffset(potential_loc, curr_ind, needle_len) ==
    potential_loc + curr_ind + needle_len

\* the loop 'l (block.rs 91-108) over the candidates from the k-th on:
\* [tag |-> "found", loc, end] | [tag |-> "none"] | [tag |-> "abort"]
RECURSIVE EndSearch(_, _, _, _, _, _)
EndSearch(buf, lim, it, k, curr_ind, needle_len) ==
    IF k > Len(it) THEN [tag |-> "none"]
    ELSE LET Walked(potential_loc, w) ==
               CASE w.tag = "abort" -> [tag |-> "abort"]
                 [] w.tag = "reject" -> EndSearch(buf, lim, it, k + 1, curr_ind, needle_len)
                 [] OTHER -> [tag |-> "found", loc |-> w.loc,
                              end |-> BlockEndOffset(potential_loc, curr_ind, needle_len)]
         IN Walked(it[k], WalkBack(buf, lim, it[k] + curr_ind - 1))

\* struct Block of block.rs
Block(bk, parameters, lesser, contents) ==
    [expr |-> "Block", kind |-> bk.kind, arg |-> bk.arg,
     parameters |-> parameters, lesser |-> lesser, contents |-> contents]

\* block.rs 30-57: the opening line up to the kind.
\* [tag |-> "ok", bk, name, curr_ind] | [tag |-> "err", err] | [tag |-> "abort"]
BlockHeader(buf, lim, index) ==
    LET SrcKind(block_name_match, lang) ==
          IF ~lang.ok THEN [tag |-> "err", err |-> lang.err]
          ELSE [tag |-> "ok", bk |-> BlockKind("Src", lang.obj),
                name |-> block_name_match.obj, curr_ind |-> skip_ws(buf, lim, lang.end)]
        OtherKind(block_name_match, curr_ind, from) ==
          IF from.unreachable THEN [tag |-> "abort"]
          ELSE [tag |-> "ok", bk |-> from.bk,
                name |-> block_name_match.obj, curr_ind |-> curr_ind]
        AfterName(block_name_match, curr_ind) ==
          IF block_name_match.obj = S_src
          THEN IF curr_ind = block_name_match.end
               THEN [tag |-> "err", err |-> "InvalidLogic"]
               ELSE SrcKind(block_name_match,
                            fn_until(buf, lim, curr_ind, WhitespaceBytes(buf)))
          ELSE OtherKind(block_name_match, curr_ind, BlockKindFrom(block_name_match.obj))
        AfterCookie(begin_cookie, block_name_match) ==
          IF ~block_name_match.ok THEN [tag |-> "err", err |-> block_name_match.err]
          ELSE IF begin_cookie.end = block_name_match.end
          THEN [tag |-> "err", err |-> "InvalidLogic"]
          ELSE AfterName(block_name_match, skip_ws(buf, lim, block_name_match.end))
        Cookie(begin_cookie) ==
          IF ~begin_cookie.ok THEN [tag |-> "err", err |-> begin_cookie.err]
          ELSE AfterCookie(begin_cookie,
                           fn_until(buf, lim, begin_cookie.end, WhitespaceBytes(buf)))
    IN Cookie(word(buf, lim, index, S_begin))

\* block.rs 59-65: the parameters. byte_arr[curr_ind] is an unchecked index.
BlockParameters(buf, lim, curr_ind) ==
    LET Params(params_match) ==
          IF ~params_match.ok THEN [tag |-> "err", err |-> params_match.err]
          ELSE [tag |-> "ok", parameters |-> Some(params_match.obj),
                curr_ind |-> params_match.end]
    IN IF curr_ind >= lim THEN [tag |-> "abort"]
       ELSE IF buf[curr_ind + 1] = NEWLINE
       THEN [tag |-> "ok", parameters |-> None, curr_ind |-> curr_ind]
       ELSE Params(fn_until(buf, lim, curr_ind, {NEWLINE}))

\* block.rs 75-80
BlockNeedle(bk, name) ==
    LET Needle(block_end) ==
          IF IsSome(block_end) THEN Unwrap(block_end)
          ELSE S_end \o name \o <<NEWLINE>>
    IN Needle(to_end(bk))

\* block.rs 82-113: curr_ind is the offset of the newline ending the opening line.
\* [tag |-> "ok", loc, end, curr_ind] | [tag |-> "err", err] | [tag |-> "abort"]
BlockEnd(buf, lim, curr_ind0, needle) ==
    LET Found(curr_ind, s) ==
          CASE s.tag = "abort" -> [tag |-> "abort"]
            [] s.tag = "none" -> [tag |-> "err", err |-> "InvalidLogic"]
            [] OTHER -> [tag |-> "ok", loc |-> s.loc, end |-> s.end,
                         curr_ind |-> IF curr_ind > s.loc THEN s.loc ELSE curr_ind]
        Search(curr_ind, it) ==
          Found(curr_ind, EndSearch(buf, lim, it, 1, curr_ind, Len(needle)))
        From(curr_ind) == Search(curr_ind, find_iter(buf, lim, curr_ind, needle))
    IN From(curr_ind0 + 1)

RECURSIVE parse_element(_, _, _, _, _)

\* block.rs 130-139: while let Ok(element_id) = parse_element(..&byte_arr[..loc]..)
RECURSIVE BlockChildren(_, _, _, _, _, _)

\* a variant of the loop that puts each new child at the front of the list
BlockChildren_prepends(P, buf, loc, curr_ind, reserve, content_vec) ==
    LET Parsed(r) ==
          CASE r.tag = "ok" ->
                 BlockChildren(r.P, buf, loc, PoolAt(r.P.pool, r.id).end, reserve,
                               <<r.id>> \o content_vec)
            [] r.tag = "abort" -> [tag |-> "abort", P |-> r.P, content_vec |-> content_vec]
            [] OTHER -> [tag |-> "ok", P |-> r.P, content_vec |-> content_vec]
    IN Parsed(parse_element(P, buf, loc, curr_ind, Some(reserve)))

BlockChildren(P, buf, loc, curr_ind, reserve, content_vec) ==
    LET Parsed(r) ==
          CASE r.tag = "ok" ->
                 BlockChildren(r.P, buf, loc, PoolAt(r.P.pool, r.id).end, reserve,
                               Append(content_vec, r.id))
            [] r.tag = "abort" -> [tag |-> "abort", P |-> r.P, content_vec |-> content_vec]
            [] OTHER -> [tag |-> "ok", P |-> r.P, content_vec |-> content_vec]
    IN Parsed(parse_element(P, buf, loc, curr_ind, Some(reserve)))

\* block.rs 115-152: allocation of the block found
BlockAlloc(P, buf, index, parent, bk, parameters, e) ==
    LET Lesser(a) == POk([P EXCEPT !.pool = a.pool], a.id)
        Filled(ch, a) == POk([ch.P EXCEPT !.pool = a.pool], a.id)
        Greater(rsv, ch) ==
          IF ch.tag = "abort" THEN PAbort(ch.P, "parse_element")
          ELSE Filled(ch, alloc_with_id(ch.P.pool,
                                        Block(bk, parameters, FALSE, ch.content_vec),
                                        index, e.end, parent, rsv.id))
        Reserved(rsv) ==
          Greater(rsv, BlockChildren([P EXCEPT !.pool = rsv.pool], buf, e.loc,
                                     e.curr_ind, rsv.id, <<>>))
    IN IF is_lesser(bk)
       THEN Lesser(alloc(P.pool,
                         Block(bk, parameters, TRUE, Slice(buf, e.curr_ind, e.loc)),
                         index, e.end, parent))
       ELSE Reserved(reserve_id(P.pool))

\* Block::parse (block.rs 23-153)
Block_parse(P, buf, lim, index, parent) ==
    LET Ended(h, p, e) ==
          CASE e.tag = "err" -> PErr(P, e.err)
            [] e.tag = "abort" -> PAbort(P, "index")
            [] OTHER -> BlockAlloc(P, buf, index, parent, h.bk, p.parameters, e)
        Parameters(h, p) ==
          CASE p.tag = "err" -> PErr(P, p.err)
            [] p.tag = "abort" -> PAbort(P, "index")
            [] OTHER -> Ended(h, p, BlockEnd(buf, lim, p.curr_ind,
                                             BlockNeedle(h.bk, h.name)))
        Header(h) ==
          CASE h.tag = "err" -> PErr(P, h.err)
            [] h.tag = "abort" -> PAbort(P, "unreachable")
            [] OTHER -> Parameters(h, BlockParameters(buf, lim, h.curr_ind))
    IN Header(BlockHeader(buf, lim, index))

(***************************************************************************)
(* MacroDef::parse (keyword.rs 155-221).                                    *)
(***************************************************************************)
\* Which arm of `match cursor.curr()` (keyword.rs 184-208) takes byte c.
\* DOLLAR is not among the constants imported at keyword.rs 1 and is defined
\* nowhere in the file, so `DOLLAR =>` is an identifier pattern: it binds the
\* byte and matches every value; the NEWLINE and `_` arms are never reached.
MacroBodyArm(c) == "DOLLAR"

\* the loop of keyword.rs 183-209
\* [tag |-> "ok", index, input, num_args] | [tag |-> "err", err] | [tag |-> "abort"]
RECURSIVE MacroBodyLoop(_, _, _, _, _, _)
MacroBodyLoop(buf, lim, index, prev_ind, ret_vec, num_args) ==
    IF index >= lim THEN [tag |-> "abort"]                    \* cursor.curr()
    ELSE
    LET arm == MacroBodyArm(buf[index + 1])
    IN CASE arm = "DOLLAR" ->
              LET p == peek(buf, lim, index, 1)
              IN IF ~p.ok THEN [tag |-> "err", err |-> p.err]
                 ELSE IF is_ascii_digit(p.obj)
                 THEN LET arg_ident == DigitValue(p.obj)
                      IN MacroBodyLoop(buf, lim, index + 2, index + 2,
                             ret_vec \o <<[t |-> "Text", v |-> Slice(buf, prev_ind, index)],
                                          [t |-> "ArgNum", v |-> arg_ident]>>,
                             Max(num_args, arg_ident))
                 ELSE MacroBodyLoop(buf, lim, index + 1, prev_ind, ret_vec, num_args)
         [] arm = "NEWLINE" ->
              [tag |-> "ok", index |-> index, num_args |-> num_args,
               input |-> Append(ret_vec, [t |-> "Text", v |-> Slice(buf, prev_ind, index)])]
         [] OTHER -> MacroBodyLoop(buf, lim, index + 1, prev_ind, ret_vec, num_args)

NameBytes(buf) ==
    {c \in AllBytes(buf) : is_ascii_alphanumeric(c) \/ c = HYPHEN \/ c = UNDERSCORE}

\* [tag |-> "ok", start, end, obj] | [tag |-> "err", err] | [tag |-> "abort"]
MacroDef_parse(buf, lim, index) ==
    LET Body(name_match, l) ==
          CASE l.tag = "abort" -> [tag |-> "abort"]
            [] l.tag = "err" -> [tag |-> "err", err |-> l.err]
            [] OTHER ->
               [tag |-> "ok", start |-> index, end |-> l.index + 1,
                obj |-> [expr |-> "MacroDef", num_args |-> l.num_args,
                         input |-> l.input, name |-> name_match.obj]]
        AfterName(name_match, i2) ==
          IF i2 >= lim THEN [tag |-> "abort"]                 \* cursor.curr()
          ELSE IF buf[i2 + 1] = NEWLINE THEN [tag |-> "err", err |-> "InvalidLogic"]
          ELSE Body(name_match, MacroBodyLoop(buf, lim, i2, i2, <<>>, 0))
        Named(name_match) ==
          IF ~name_match.ok THEN [tag |-> "err", err |-> name_match.err]
          ELSE AfterName(name_match, skip_ws(buf, lim, name_match.end))
        Start(i1) ==
          IF i1 >= lim THEN [tag |-> "abort"]                 \* cursor.curr()
          ELSE IF ~is_ascii_alphabetic(buf[i1 + 1]) \/ buf[i1 + 1] = NEWLINE
          THEN [tag |-> "err", err |-> "InvalidLogic"]
          ELSE Named(fn_while(buf, lim, i1, NameBytes(buf)))
    IN Start(skip_ws(buf, lim, index))

(***************************************************************************)
(* Keyword::parse (keyword.rs 34-139).                                      *)
(***************************************************************************)
Keyword(key, val) == [expr |-> "Keyword", key |-> key, val |-> val]
Affiliated(kind, child_id, backend, val) ==
    [expr |-> "Affiliated", kind |-> kind, child_id |-> child_id,
     backend |-> backend, val |-> val]

KeyStop(buf) == {COLON} \cup WhitespaceBytes(buf)

\* keyword.rs 47-67, 88-101, 104-119: the value up to the newline, the element
\* that follows it, and the Affiliated node wrapping both
AffiliatedTail(P, buf, lim, start, index, parent, kind, backend) ==
    LET Allocated(c, a) == POk([c.P EXCEPT !.pool = a.pool], a.id)
        Child(val, cur, c) ==
          IF c.tag = "abort" THEN c
          ELSE Allocated(c,
                 alloc(c.P.pool,
                       Affiliated(kind,
                                  IF c.tag = "ok" THEN Some(c.id) ELSE None,
                                  backend,
                                  IF kind = "Name" THEN <<>> ELSE trim(val.obj)),
                       start,
                       IF c.tag = "ok" THEN PoolAt(c.P.pool, c.id).end ELSE cur,
                       parent))
        Value(val) ==
          IF ~val.ok THEN PErr(P, val.err)
          ELSE Child(val, val.end + 1, parse_element(P, buf, lim, val.end + 1, parent))
    IN Value(fn_until(buf, lim, index, {NEWLINE}))

\* keyword.rs 124-137
PlainKeyword(P, buf, lim, start, index, parent, key) ==
    LET Allocated(P1, a) == POk([P1 EXCEPT !.pool = a.pool], a.id)
        Inserted(val, trimmed, P1) ==
          Allocated(P1, alloc(P1.pool, Keyword(key, trimmed), start, val.end + 1, parent))
        Trimmed(val, trimmed) ==
          Inserted(val, trimmed,
                   [P EXCEPT !.keywords = MapInsert(P.keywords, key, trimmed)])
        Value(val) ==
          IF ~val.ok THEN PErr(P, val.err) ELSE Trimmed(val, trim(val.obj))
    IN Value(fn_until(buf, lim, index, {NEWLINE}))

\* keyword.rs 79-86: [tag |-> "ok", r] when the arm returned, "fall" when it fell through
MacroArm(P, buf, lim, start, index, parent, key) ==
    LET Allocated(mac, a) ==
          POk([P EXCEPT !.pool = a.pool,
                        !.macros = MapInsert(P.macros, mac.obj.name, a.id)], a.id)
        Defined(mac) ==
          CASE mac.tag = "abort" -> PAbort(P, "index")
            [] mac.tag = "ok" ->
                 Allocated(mac, alloc(P.pool, mac.obj, start, mac.end, parent))
            [] OTHER -> PlainKeyword(P, buf, lim, start, index, parent, key)
    IN Defined(MacroDef_parse(buf, lim, index))

Keyword_parse(P, buf, lim, index, parent) ==
    LET Arm(key_word, cur, lower) ==
          CASE lower = S_macro ->
                 MacroArm(P, buf, lim, index, cur, parent, key_word.obj)
            [] lower = S_name ->
                 AffiliatedTail(P, buf, lim, index, cur, parent, "Name", <<>>)
            [] lower = S_caption ->
                 AffiliatedTail(P, buf, lim, index, cur, parent, "Caption", <<>>)
            [] OTHER ->
                 PlainKeyword(P, buf, lim, index, cur, parent, key_word.obj)
        Key(key_word) ==
          IF ~key_word.ok THEN PErr(P, key_word.err)
          ELSE IF buf[key_word.end + 1] # COLON THEN PErr(P, "InvalidLogic")
          ELSE Arm(key_word, key_word.end + 1, to_lowercase(key_word.obj))
        Attr(backend) ==
          IF ~backend.ok THEN PErr(P, backend.err)
          ELSE AffiliatedTail(P, buf, lim, index, backend.end, parent,
                              "Attr", backend.obj)
        Prefix(w, at) ==
          IF at.ok THEN Attr(fn_until(buf, lim, at.end, KeyStop(buf)))
          ELSE Key(fn_until(buf, lim, w.end, KeyStop(buf)))
        Hashplus(w) ==
          IF ~w.ok THEN PErr(P, w.err)
          ELSE Prefix(w, word(buf, lim, w.end, S_attr))
    IN Hashplus(word(buf, lim, index, S_hashplus))

(***************************************************************************)
(* The element dispatcher and the paragraph fallback.  parse.rs and         *)
(* element/paragraph.rs are not among the source files: this is the         *)
(* dispatcher of the design notes reduced to the rules modelled here        *)
(* (blank line, block, keyword line, paragraph), first success wins.        *)
(***************************************************************************)
\* the lines of a paragraph from index on: Plain(line), SoftBreak between lines.
\* A paragraph ends at the end of the view, before a blank line and before a
\* line that opens with "#+".
RECURSIVE ParagraphLines(_, _, _, _, _, _)
ParagraphLines(pool, buf, lim, index, par, children) ==
    LET More(next, kids, sb) ==
          ParagraphLines(sb.pool, buf, lim, next, par, Append(kids, sb.id))
        Line(e, a, kids, next) ==
          IF e >= lim THEN [pool |-> a.pool, children |-> kids, end |-> lim]
          ELSE IF next >= lim \/ buf[next + 1] = NEWLINE
                  \/ starts_with(buf, lim, next, S_hashplus)
          THEN [pool |-> a.pool, children |-> kids, end |-> next]
          ELSE More(next, kids, alloc(a.pool, [expr |-> "SoftBreak"], e, next, Some(par)))
        Plain(e, a) == Line(e, a, Append(children, a.id), e + 1)
        Scanned(e) ==
          Plain(e, alloc(pool, [expr |-> "Plain", text |-> Slice(buf, index, e)],
                         index, e, Some(par)))
    IN Scanned(ScanUntil(buf, lim, index, {NEWLINE}))

Paragraph_parse(P, buf, lim, index, parent) ==
    LET Allocated(a) == POk([P EXCEPT !.pool = a.pool], a.id)
        Lines(rsv, l) ==
          Allocated(alloc_with_id(l.pool, [expr |-> "Paragraph", children |-> l.children],
                                  index, l.end, parent, rsv.id))
        Reserved(rsv) == Lines(rsv, ParagraphLines(rsv.pool, buf, lim, index, rsv.id, <<>>))
    IN Reserved(reserve_id(P.pool))

parse_element(P, buf, lim, index, parent) ==
    LET Blank(a) == POk([P EXCEPT !.pool = a.pool], a.id)
        TriedKeyword(k) ==
          IF k.tag # "err" THEN k
          ELSE Paragraph_parse(k.P, buf, lim, index, parent)
        TriedBlock(b) ==
          IF b.tag # "err" THEN b
          ELSE TriedKeyword(Keyword_parse(b.P, buf, lim, index, parent))
    IN IF index >= lim THEN PErr(P, "EofError")
       ELSE IF buf[index + 1] = NEWLINE
       THEN Blank(alloc(P.pool, [expr |-> "BlankLine"], index, index + 1, parent))
       ELSE TriedBlock(Block_parse(P, buf, lim, index, parent))

(***************************************************************************)
(* The Org exporter (org-exporter/src/org.rs).                              *)
(*                                                                          *)
(* An exporter writes into a sink that is either a String or, for the       *)
(* exporter export_macro_buf creates, the exporter that called it.  The     *)
(* model keeps the String as `out` and the chain of exporters writing into  *)
(* it as `frames`; the last frame is `self`.  `panic` records an arithmetic *)
(* overflow or an unreachable!() met while exporting.                       *)
(***************************************************************************)
Frame(level, on_newline) ==
    [indentation_level |-> level, on_newline |-> on_newline, errors |-> <<>>]

\* The sink `buf: &mut T` with T: fmt::Write.  A String takes every write;
\* another sink may refuse one: room is the number of bytes the sink still
\* takes (Unlimited for a String), and a write_str of more bytes returns
\* Err(fmt::Error) and writes nothing.
Unlimited == -1

\* indentation_level: u8 (org.rs 23)
U8Max == 255

\* Org { buf, indentation_level: 0, on_newline: false, conf, errors: Vec::new() }
\* werr: an Err(fmt::Error) is on its way up through the `?` of the callers;
\* cut: a write to the sink has failed;
\* overflow_checks: the build checks integer overflow (it panics) or not (the
\* u8 wraps);
\* visits: the calls of export_rec that have returned, in the order of their
\* return, each with the exporter it ran on (the number of its frame), the
\* level it found and the level it left
OrgBuilt(room, overflow_checks) ==
    [out |-> <<>>, frames |-> <<Frame(0, FALSE)>>, panic |-> FALSE,
     room |-> room, werr |-> FALSE, cut |-> FALSE,
     overflow_checks |-> overflow_checks, visits |-> <<>>]
OrgOn(room) == OrgBuilt(room, TRUE)
NewOrg == OrgOn(Unlimited)

Self(st) == st.frames[Len(st.frames)]

\* str::split_inclusive('\n')
RECURSIVE split_inclusive(_)
split_inclusive(s) ==
    IF Len(s) = 0 THEN <<>>
    ELSE LET e == ScanUntil(s, Len(s), 0, {NEWLINE})
             stop == Min(e + 1, Len(s))
         IN <<SubSeq(s, 1, stop)>> \o split_inclusive(SubSeq(s, stop + 1, Len(s)))

\* impl fmt::Write for Org (org.rs 656-678), for the exporter at frame k;
\* frame 0 is the String
RECURSIVE WriteAt(_, _, _)
RECURSIVE WriteIndent(_, _, _)
RECURSIVE WriteChunks(_, _, _, _)

\* a variant that indents by one unit whatever the level
WriteIndent_once(st, k, n) ==
    IF n <= 0 THEN st ELSE WriteAt(st, k, <<" ", " ">>)

\* org.rs 660-664: for _ in 0..self.indentation_level { self.buf.write_str("  ") }
WriteIndent(st, k, n) ==
    IF n <= 0 THEN st
    ELSE WriteIndent(WriteAt(st, k, <<" ", " ">>), k, n - 1)

\* org.rs 659-667: the body of `for chunk in s.split_inclusive('\n')`
WriteChunks(st, k, chunks, s) ==
    IF Len(chunks) = 0 THEN st
    ELSE LET f == st.frames[k]
             st1 == IF f.on_newline
                    THEN WriteIndent(st, k - 1, f.indentation_level)
                    ELSE st
             st2 == IF st1.werr THEN st1
                    ELSE [st1 EXCEPT !.frames[k].on_newline =
                                         ends_with_newline(Head(chunks))]
             st3 == WriteAt(st2, k - 1, s)
         IN WriteChunks(st3, k, Tail(chunks), s)

WriteAt(st, k, s) ==
    IF st.werr THEN st
    ELSE IF k = 0
    THEN IF st.room # Unlimited /\ Len(s) > st.room
         THEN [st EXCEPT !.werr = TRUE, !.cut = TRUE]
         ELSE [st EXCEPT !.out = @ \o s,
                         !.room = IF @ = Unlimited THEN @ ELSE @ - Len(s)]
    ELSE IF st.frames[k].indentation_level > 0
    THEN WriteChunks(st, k, split_inclusive(s), s)
    ELSE WriteAt(st, k - 1, s)

\* self.write_str(s)
write_str(st, s) == WriteAt(st, Len(st.frames), s)

\* write!(self, ...): one write_str per literal piece and per argument
RECURSIVE WriteAll(_, _)
WriteAll(st, pieces) ==
    LET Written(st1) == IF st1.panic THEN st1 ELSE WriteAll(st1, Tail(pieces))
    IN IF Len(pieces) = 0 THEN st ELSE Written(write_str(st, Head(pieces)))

\* for _ in 0..n { write!(self, s) }
RECURSIVE WriteTimes(_, _, _)
WriteTimes(st, s, n) ==
    LET Written(st1) == IF st1.panic THEN st1 ELSE WriteTimes(st1, s, n - 1)
    IN IF n <= 0 THEN st ELSE Written(write_str(st, s))

\* a variant that records an empty span at the start of the node
PushError_at_start(st, node, source) ==
    IF st.werr THEN st ELSE
    [st EXCEPT !.frames[Len(st.frames)].errors =
        Append(@, [span |-> <<node.start, node.start>>, source |-> source])]

\* self.errors().push(ExportError::LogicError { span: node.start..node.end, source })
PushError(st, node, source) ==
    IF st.werr THEN st ELSE
    [st EXCEPT !.frames[Len(st.frames)].errors =
        Append(@, [span |-> <<node.start, node.end>>, source |-> source])]

\* for (key, val) in parameters { write!(self, " :{} {}", key, val) }
RECURSIVE WriteParameters(_, _)
WriteParameters(st, parameters) ==
    LET Written(st1) == IF st1.panic THEN st1 ELSE WriteParameters(st1, Tail(parameters))
    IN IF Len(parameters) = 0 THEN st
       ELSE Written(WriteAll(st, <<<<" ", ":">>, Head(parameters)[1], <<" ">>,
                                  Head(parameters)[2]>>))

(***************************************************************************)
(* What the exporter asks of its environment.  include_handle and           *)
(* macro_handle are not among the source files: a call either fails,        *)
(* writing nothing, or yields its text.                                     *)
(***************************************************************************)
IncludeFiles == {<<"f">>}
IncludedText == <<"i", "\n">>

\* include_handle(val, self): [ok, st]
include_handle(st, val) ==
    IF val \in IncludeFiles
    THEN [ok |-> TRUE, st |-> write_str(st, IncludedText)]
    ELSE [ok |-> FALSE, st |-> st]

\* macro_handle(parser, macro_call, conf): what the call resolves to,
\* [t |-> "Err"] | [t |-> "Borrowed", r] | [t |-> "Owned", parsed], where parsed
\* is the tree parse_macro_call gives for the expanded text
macro_handle(P, macro_call) == macro_call.resolves

(***************************************************************************)
(* export_rec (org.rs 92-641).                                              *)
(***************************************************************************)
RECURSIVE export_rec(_, _, _)

\* for id in ids { self.export_rec(id, parser)?; }
RECURSIVE ExportEach(_, _, _)
ExportEach(st, P, ids) ==
    LET Exported(st1) == IF st1.panic THEN st1 ELSE ExportEach(st1, P, Tail(ids))
    IN IF Len(ids) = 0 THEN st ELSE Exported(export_rec(st, P, Head(ids)))

Reverse(q) == [i \in 1..Len(q) |-> q[Len(q) + 1 - i]]

\* a variant that walks the stored tags first to last
TagOrder_forward(tags) == tags

\* org.rs 145: tags.iter().rev()
TagOrder(tags) == Reverse(tags)

\* org.rs 144-152: valid_out; a Tag::Loc adds nothing
RECURSIVE TagText(_)
TagText(ordered) ==
    IF Len(ordered) = 0 THEN <<>>
    ELSE (IF Head(ordered).t = "Raw" THEN <<":">> \o Head(ordered).val ELSE <<>>)
         \o TagText(Tail(ordered))

HeadingTagText(tags) == TagText(TagOrder(tags))

\* org.rs 100-166
ExportHeading(st, P, inner) ==
    LET Stars(s) == WriteTimes(s, <<"*">>, inner.heading_level)
        Space(s) == write_str(s, <<" ">>)
        Todo(s) == IF IsSome(inner.keyword)
                   THEN WriteAll(s, <<Unwrap(inner.keyword), <<" ">>>>) ELSE s
        Priority(s) ==
          IF IsSome(inner.priority)
          THEN WriteAll(s, <<<<"[", "#">>, Unwrap(inner.priority), <<"]", " ">>>>)
          ELSE s
        Title(s) == IF IsSome(inner.title) THEN ExportEach(s, P, Unwrap(inner.title)) ELSE s
        ValidOut(s, valid_out) ==
          IF Len(valid_out) # 0 THEN WriteAll(s, <<<<" ">>, valid_out, <<":">>>>) ELSE s
        Tags(s) == IF IsSome(inner.tags)
                   THEN ValidOut(s, HeadingTagText(Unwrap(inner.tags))) ELSE s
        Newline(s) == write_str(s, <<NEWLINE>>)
        Children(s) == IF IsSome(inner.children)
                       THEN ExportEach(s, P, Unwrap(inner.children)) ELSE s
    IN Children(Newline(Tags(Title(Priority(Todo(Space(Stars(st))))))))

\* org.rs 167-275
ExportBlock(st, P, inner) ==
    LET greater(open, close) ==
            LET st1 == WriteParameters(write_str(st, open), inner.parameters)
                st2 == write_str(st1, <<NEWLINE>>)
                st3 == ExportEach(st2, P, inner.contents)
            IN write_str(st3, close)
        lesser(open, arg, close) ==
            LET st0 == IF Len(arg) = 1 THEN WriteAll(st, <<open, arg[1]>>)
                       ELSE write_str(st, open)
                st1 == WriteParameters(st0, inner.parameters)
                st2 == WriteAll(st1, <<<<NEWLINE>>, inner.contents>>)
            IN write_str(st2, close)
    IN CASE inner.kind = "Center" ->
              greater(S_begin \o S_center, S_end \o S_center \o <<NEWLINE>>)
         [] inner.kind = "Quote" ->
              greater(S_begin \o S_quote \o <<NEWLINE>>, S_end \o S_quote \o <<NEWLINE>>)
         [] inner.kind = "Special" ->
              LET st0 == WriteAll(st, <<S_begin, inner.arg>>)
                  st1 == WriteParameters(st0, inner.parameters)
                  st2 == write_str(st1, <<NEWLINE>>)
                  st3 == ExportEach(st2, P, inner.contents)
              IN WriteAll(st3, <<S_end, inner.arg, <<NEWLINE>>>>)
         [] inner.kind = "Comment" ->
              lesser(S_begin \o S_comment, <<>>, S_end \o S_comment \o <<NEWLINE>>)
         [] inner.kind = "Example" ->
              lesser(S_begin \o S_example, <<>>, S_end \o S_example \o <<NEWLINE>>)
         [] inner.kind = "Export" ->
              lesser(S_begin \o S_export \o <<" ">>, <<inner.arg>>,
                     S_end \o S_export \o <<NEWLINE>>)
         [] inner.kind = "Src" ->
              lesser(S_begin \o S_src \o <<" ">>, <<inner.arg>>,
                     S_end \o S_src \o <<NEWLINE>>)
         [] OTHER ->
              lesser(S_begin \o S_verse, <<>>, S_end \o S_verse \o <<NEWLINE>>)

\* org.rs 391-418: the bullet, counter, check box and tag of an item
ItemHead(st, inner) ==
    LET Bullet(s) == CASE inner.bullet.t = "Unordered" -> write_str(s, <<"-">>)
                       [] OTHER -> WriteAll(s, <<inner.bullet.v, <<".">>>>)
        Space(s) == write_str(s, <<" ">>)
        CounterSet(s) ==
          IF IsSome(inner.counter_set)
          THEN WriteAll(s, <<<<"[", "@">>, Unwrap(inner.counter_set), <<"]">>>>)
          ELSE s
        CheckBox(s) ==
          IF IsSome(inner.check_box)
          THEN WriteAll(s, <<<<"[">>, Unwrap(inner.check_box), <<"]", " ">>>>)
          ELSE s
        ItemTag(s) ==
          IF IsSome(inner.tag)
          THEN WriteAll(s, <<Unwrap(inner.tag), <<" ", ":", ":", " ">>>>)
          ELSE s
    IN ItemTag(CheckBox(CounterSet(Space(Bullet(st)))))

\* org.rs 420: self.indentation_level += 1 on a u8; at 255 the addition
\* panics in a build with overflow checks and wraps to 0 in one without
ItemIndent(s, k) ==
    IF s.werr THEN s
    ELSE IF s.frames[k].indentation_level = U8Max
    THEN IF s.overflow_checks THEN [s EXCEPT !.panic = TRUE]
         ELSE [s EXCEPT !.frames[k].indentation_level = 0]
    ELSE [s EXCEPT !.frames[k].indentation_level = @ + 1]

\* org.rs 424-427: self.indentation_level -= 1, then on_newline = false when
\* the level is 0
ItemDedent(s, k) ==
    LET Dedent(s0) == IF s0.werr \/ s0.panic THEN s0
                      ELSE IF s0.frames[k].indentation_level = 0
                      THEN IF s0.overflow_checks THEN [s0 EXCEPT !.panic = TRUE]
                           ELSE [s0 EXCEPT !.frames[k].indentation_level = U8Max]
                      ELSE [s0 EXCEPT !.frames[k].indentation_level = @ - 1]
        Reset(s0) == IF ~s0.werr /\ ~s0.panic /\ s0.frames[k].indentation_level = 0
                     THEN [s0 EXCEPT !.frames[k].on_newline = FALSE]
                     ELSE s0
    IN Reset(Dedent(s))

\* org.rs 390-427
ExportItem(st, P, inner) ==
    LET k == Len(st.frames)
        Children(s) == ExportEach(s, P, inner.children)
    IN ItemDedent(Children(ItemIndent(ItemHead(st, inner), k)), k)

\* a variant of the column width that looks at the first row only
ColWidth_first_row(build_vec, col_ind) ==
    IF Len(build_vec) > 0 /\ col_ind <= Len(build_vec[1])
    THEN Len(build_vec[1][col_ind]) ELSE 0

\* org.rs 487-491: curr_max over the rows, a missing cell counts 0
RECURSIVE ColWidthFrom(_, _, _, _)
ColWidthFrom(build_vec, col_ind, r, curr_max) ==
    IF r > Len(build_vec) THEN curr_max
    ELSE ColWidthFrom(build_vec, col_ind, r + 1,
             Max(curr_max, IF col_ind <= Len(build_vec[r])
                           THEN Len(build_vec[r][col_ind]) ELSE 0))

ColWidth(build_vec, col_ind) == ColWidthFrom(build_vec, col_ind, 1, 0)

\* org.rs 456-468: the cells of a standard row, each exported by an exporter
\* of its own into a String of its own; that exporter is dropped afterwards
RECURSIVE BuildRow(_, _, _)
BuildRow(st, P, stans) ==
    IF Len(stans) = 0 THEN [row_vec |-> <<>>, panic |-> FALSE]
    ELSE LET new_obj == [out |-> <<>>, panic |-> FALSE,
                         room |-> Unlimited, werr |-> FALSE, cut |-> FALSE,
                         overflow_checks |-> st.overflow_checks, visits |-> <<>>,
                         frames |-> <<Frame(Self(st).indentation_level,
                                            Self(st).on_newline)>>]
             done == export_rec(new_obj, P, Head(stans))
             rest == BuildRow(st, P, Tail(stans))
         IN [row_vec |-> <<done.out>> \o rest.row_vec,
             panic |-> done.panic \/ rest.panic]

\* org.rs 450-478: build_vec; a rule row is an empty row_vec
RECURSIVE BuildVec(_, _, _)
BuildVec(st, P, children) ==
    IF Len(children) = 0 THEN [build_vec |-> <<>>, panic |-> FALSE]
    ELSE LET row == PoolAt(P.pool, Head(children)).obj
             rest == BuildVec(st, P, Tail(children))
         IN IF row.expr # "TableRow"
            THEN [build_vec |-> <<>>, panic |-> TRUE]          \* unreachable!()
            ELSE LET r == IF row.row = "Standard" THEN BuildRow(st, P, row.cells)
                          ELSE [row_vec |-> <<>>, panic |-> FALSE]
                 IN [build_vec |-> <<r.row_vec>> \o rest.build_vec,
                     panic |-> r.panic \/ rest.panic]

\* org.rs 499-511: a rule row
RECURSIVE WriteRule(_, _, _, _)

\* a variant of the rule row that closes the last column with a bar
WriteRule_bar_last(st, col_widths, i, cols) ==
    LET Dashes(s) == WriteTimes(s, <<"-">>, col_widths[i + 1] + 2)
        Corner(s) == IF i + 1 = cols THEN write_str(s, <<"|">>) ELSE write_str(s, <<"+">>)
        Column(s) == IF s.panic THEN s ELSE WriteRule(s, col_widths, i + 1, cols)
    IN IF i >= Len(col_widths) THEN st ELSE Column(Corner(Dashes(st)))

WriteRule(st, col_widths, i, cols) ==
    LET Dashes(s) == WriteTimes(s, <<"-">>, col_widths[i + 1] + 2)
        Corner(s) == IF i = cols THEN write_str(s, <<"|">>) ELSE write_str(s, <<"+">>)
        Column(s) == IF s.panic THEN s ELSE WriteRule(s, col_widths, i + 1, cols)
    IN IF i >= Len(col_widths) THEN st ELSE Column(Corner(Dashes(st)))

\* org.rs 513-531: the cells of a data row; col_width - strang.len() is a
\* subtraction of usize
RECURSIVE WriteCells(_, _, _, _)
WriteCells(st, row, col_widths, col_ind) ==
    LET col_width == col_widths[col_ind + 1]
        has == col_ind < Len(row)
        LeftBuffer(s) == write_str(s, <<" ">>)
        Text(s) == IF has THEN write_str(s, row[col_ind + 1]) ELSE s
        Padding(s, diff) == WriteTimes(s, <<" ">>, diff)
        RightBuffer(s) == write_str(s, <<" ", "|">>)
        Column(s) == IF s.panic THEN s ELSE WriteCells(s, row, col_widths, col_ind + 1)
        Cell(s) ==
          IF has /\ col_width < Len(row[col_ind + 1])
          THEN [s EXCEPT !.panic = ~s.werr]
          ELSE Column(RightBuffer(Padding(Text(s),
                   IF has THEN col_width - Len(row[col_ind + 1]) ELSE col_width)))
    IN IF col_ind >= Len(col_widths) THEN st ELSE Cell(LeftBuffer(st))

\* org.rs 495-535
RECURSIVE WriteRows(_, _, _, _)
WriteRows(st, build_vec, col_widths, cols) ==
    LET Bar(s) == write_str(s, <<"|">>)
        Row(s, row) == IF Len(row) = 0 THEN WriteRule(s, col_widths, 0, cols)
                       ELSE WriteCells(s, row, col_widths, 0)
        Newline(s) == IF s.panic THEN s ELSE write_str(s, <<NEWLINE>>)
        Rest(s) == IF s.panic THEN s ELSE WriteRows(s, Tail(build_vec), col_widths, cols)
    IN IF Len(build_vec) = 0 THEN st
       ELSE Rest(Newline(Row(Bar(st), Head(build_vec))))

\* a variant of the table export without the indentation written by hand
\* and without the reset of on_newline
ExportTable_unprepared(st, P, inner) ==
    LET Rows(s, build_vec) ==
          WriteRows(s, build_vec, [c \in 1..inner.cols |-> ColWidth(build_vec, c)],
                    inner.cols)
        Built(s, b) == IF s.werr THEN s
                       ELSE IF b.panic THEN [s EXCEPT !.panic = TRUE]
                       ELSE Rows(s, b.build_vec)
        Cells(s) == Built(s, BuildVec(s, P, inner.children))
    IN Cells(st)

\* org.rs 439-536
ExportTable(st, P, inner) ==
    LET k == Len(st.frames)
        Indent(s) == WriteIndent(s, k - 1, Self(s).indentation_level)
        OffNewline(s) == IF s.werr THEN s
                         ELSE [s EXCEPT !.frames[k].on_newline = FALSE]
        Rows(s, build_vec) ==
          WriteRows(s, build_vec, [c \in 1..inner.cols |-> ColWidth(build_vec, c)],
                    inner.cols)
        Built(s, b) == IF s.werr THEN s
                       ELSE IF b.panic THEN [s EXCEPT !.panic = TRUE]
                       ELSE Rows(s, b.build_vec)
        Cells(s) == Built(s, BuildVec(s, P, inner.children))
    IN Cells(OffNewline(Indent(st)))

\* export_macro_buf (org.rs 69-90): a new exporter whose sink is the caller;
\* [st, errors], errors being what it returns in Err.  The result of its
\* export_rec is dropped (org.rs 84): an Err of a write goes no further up
export_macro_buf(st, parsed) ==
    LET Exported(done) ==
          [st |-> [done EXCEPT !.frames = SubSeq(@, 1, Len(st.frames)),
                               !.werr = FALSE],
           errors |-> Self(done).errors]
    IN Exported(export_rec([st EXCEPT !.frames = Append(@, Frame(0, FALSE))],
                           parsed, RootId))

\* org.rs 578-603
ExportMacro(st, P, node) ==
    LET Appended(m) == [m.st EXCEPT !.frames[Len(st.frames)].errors = @ \o m.errors]
        Handled(macro_contents) ==
          CASE macro_contents.t = "Err" -> PushError(st, node, "Macro")
            [] macro_contents.t = "Owned" ->
                 Appended(export_macro_buf(st, macro_contents.parsed))
            [] OTHER -> write_str(st, macro_contents.r)
    IN Handled(macro_handle(P, node.obj))

\* org.rs 355-365
ExportKeyword(st, P, node) ==
    LET Included(h) == IF h.ok THEN h.st ELSE PushError(st, node, "Include")
    IN IF to_lowercase(node.obj.key) = S_include
       THEN Included(include_handle(st, node.obj.val))
       ELSE st

export_rec(st, P, node_id) ==
    LET node == PoolAt(P.pool, node_id)
        e == node.obj.expr
        Visited(r) ==
          [r EXCEPT !.visits =
              Append(@, [id |-> node_id, frame |-> Len(st.frames),
                         ok |-> ~r.panic /\ ~r.werr,
                         found |-> Self(st).indentation_level,
                         left |-> r.frames[Len(st.frames)].indentation_level])]
    IN IF st.panic \/ st.werr THEN st
       ELSE Visited(
            CASE e = "Root" -> ExportEach(st, P, node.obj.children)
              [] e = "Heading" -> ExportHeading(st, P, node.obj)
              [] e = "Block" -> ExportBlock(st, P, node.obj)
              [] e = "Paragraph" ->
                   write_str(ExportEach(st, P, node.obj.children), <<NEWLINE>>)
              [] e = "BlankLine" -> write_str(st, <<NEWLINE>>)
              [] e = "SoftBreak" -> write_str(st, <<" ">>)
              [] e = "Plain" -> write_str(st, node.obj.text)
              [] e = "Keyword" -> ExportKeyword(st, P, node)
              [] e = "Item" -> ExportItem(st, P, node.obj)
              [] e = "PlainList" -> ExportEach(st, P, node.obj.children)
              [] e = "Table" -> ExportTable(st, P, node.obj)
              [] e = "TableRow" -> [st EXCEPT !.panic = TRUE]
              [] e = "TableCell" -> ExportEach(st, P, node.obj.children)
              [] e = "Macro" -> ExportMacro(st, P, node)
              [] OTHER -> st)                         \* Affiliated, MacroDef

\* export_tree (org.rs 45-65) from the exporter it constructs: [st, ret]; the
\* result of export_rec is dropped (org.rs 58), the return value is read off
\* obj.errors: Ok only with an empty error list
export_tree_from(parsed, obj0) ==
    LET Returned(obj) ==
          [st |-> obj, ret |-> IF Len(Self(obj).errors) = 0 THEN "Ok" ELSE "Err"]
    IN Returned(export_rec(obj0, parsed, RootId))

\* export_tree on a sink with the given room
export_tree_into(parsed, room) == export_tree_from(parsed, OrgOn(room))

\* export_tree on a String
export_tree(parsed) == export_tree_into(parsed, Unlimited)

(***************************************************************************)
(* Documents given to the parser: up to MaxLines lines drawn from a fixed   *)
(* set, optionally followed by a last line that the end of the buffer cuts  *)
(* short.                                                                   *)
(***************************************************************************)
L_begin_quote == <<"#","+","b","e","g","i","n","_","q","u","o","t","e","\n">>
L_end_quote == <<"#","+","e","n","d","_","q","u","o","t","e","\n">>
L_text == <<"a","b","\n">>
L_begin_SRC == <<"#","+","b","e","g","i","n","_","S","R","C"," ","a","\n">>
L_macro_m == <<"#","+","m","a","c","r","o",":"," ","m"," ","a","$","1","\n">>
L_macro_M == <<"#","+","m","a","c","r","o",":"," ","M"," ","b","\n">>
L_name == <<"#","+","n","a","m","e",":"," ","n","\n">>
L_key == <<"#","+","k",":"," ","v","\n">>
T_begin_quote == <<"#","+","b","e","g","i","n","_","q","u","o","t","e"," ">>
T_macro == <<"#","+","m","a","c","r","o",":">>

\* block and keyword lines
ParseLines == {L_begin_quote, L_end_quote, L_text, L_begin_SRC, L_name, L_key}
ParseTails == {<<>>, T_begin_quote}
\* macro definition lines among other lines
MacroLines == {L_macro_m, L_macro_M, L_key, L_text}
MacroTails == {<<>>, T_macro}

RECURSIVE LineSeqs(_, _)
LineSeqs(lines, n) ==
    IF n = 0 THEN {<<>>}
    ELSE LET shorter == LineSeqs(lines, n - 1)
         IN shorter \cup {Append(s, l) : s \in {t \in shorter : Len(t) = n - 1},
                                         l \in lines}

Documents(lines, tails, n) ==
    {Flatten(ls) \o t : ls \in LineSeqs(lines, n), t \in tails}

ParseInputs == Documents(ParseLines, ParseTails, MaxLines) \ {<<>>}
MacroInputs == Documents(MacroLines, MacroTails, MaxLines) \ {<<>>}

(***************************************************************************)
(* The top-level parse (parse_org of the library): the root id is reserved, *)
(* parse_element runs from the cursor until it fails, and the root is       *)
(* filled in with the ids collected.                                        *)
(***************************************************************************)
StartParse(doc) ==
    /\ text' = doc
    /\ parser' = [NewParser EXCEPT !.pool = reserve_id(NewPool).pool]
    /\ cursor' = 0
    /\ content' = <<>>
    /\ pc' = "parse"

InitWith(docs) ==
    /\ input \in docs
    /\ text = input
    /\ parser = [NewParser EXCEPT !.pool = reserve_id(NewPool).pool]
    /\ cursor = 0
    /\ content = <<>>
    /\ pc = "parse"
    /\ round = 1
    /\ ex = NewOrg
    /\ ret = "none"
    /\ out1 = <<>>
    /\ calls = <<>>
    /\ properties = EmptyMap

ParseResult == parse_element(parser, text, Len(text), cursor, Some(RootId))

\* one turn of the loop: an element is parsed and the cursor moves to its end
ParseElement ==
    LET Parsed(r) ==
          /\ r.tag = "ok"
          /\ parser' = r.P
          /\ content' = Append(content, r.id)
          /\ cursor' = PoolAt(r.P.pool, r.id).end
    IN /\ pc = "parse"
       /\ Parsed(ParseResult)
       /\ UNCHANGED <<input, text, pc, round, ex, ret, out1, calls, properties>>

\* a rule panics: the parse is abandoned
ParseAbort ==
    /\ pc = "parse"
    /\ ParseResult.tag = "abort"
    /\ pc' = "abort"
    /\ UNCHANGED <<input, text, parser, cursor, content, round, ex, ret, out1, calls, properties>>

\* parse_element fails (end of input): the loop ends and the root is written
ParseFinish ==
    /\ pc = "parse"
    /\ ParseResult.tag = "err"
    /\ parser' = [parser EXCEPT !.pool =
                     alloc_with_id(parser.pool, [expr |-> "Root", children |-> content],
                                   0, Len(text), None, RootId).pool]
    /\ pc' = "parsed"
    /\ UNCHANGED <<input, text, cursor, content, round, ex, ret, out1, calls, properties>>

Init == InitWith(ParseInputs)

Next == ParseElement \/ ParseAbort \/ ParseFinish

Spec == Init /\ [][Next]_vars

(***************************************************************************)
(* Export of the parsed tree, and the round trip: the text of the first     *)
(* export is parsed and exported again.                                     *)
(***************************************************************************)
\* Org::export_tree on the tree of the parser
ExportTree ==
    LET Exported(r) ==
          /\ ex' = r.st
          /\ ret' = r.ret
          /\ out1' = IF round = 1 THEN r.st.out ELSE out1
          /\ pc' = IF r.st.panic THEN "abort" ELSE "exported"
    IN /\ pc = "parsed"
       /\ Exported(export_tree(parser))
       /\ UNCHANGED <<input, text, parser, cursor, content, round, calls, properties>>

\* the output of the first export is given to the parser; the tree of the
\* first parse is kept in calls
Reparse ==
    /\ pc = "exported"
    /\ round = 1
    /\ round' = 2
    /\ StartParse(out1)
    /\ calls' = Append(calls, [op |-> "parse", pool |-> parser.pool])
    /\ UNCHANGED <<input, ex, ret, out1, properties>>

L_blank == <<"\n">>
L_begin_center == <<"#","+","b","e","g","i","n","_","c","e","n","t","e","r","\n">>
L_end_center == <<"#","+","e","n","d","_","c","e","n","t","e","r","\n">>
L_begin_example == <<"#","+","b","e","g","i","n","_","e","x","a","m","p","l","e","\n">>
L_end_example == <<"#","+","e","n","d","_","e","x","a","m","p","l","e","\n">>

\* paragraphs, blank lines, greater and lesser blocks, every line complete
RoundLines == {L_text, L_blank, L_begin_quote, L_end_quote, L_begin_center,
               L_end_center, L_begin_example, L_end_example}
RoundInputs == Documents(RoundLines, {<<>>}, MaxLines) \ {<<>>}

InitRound == InitWith(RoundInputs)
NextRound == ParseElement \/ ParseFinish \/ ExportTree \/ Reparse
SpecRound == InitRound /\ [][NextRound]_vars

\* C1: exporting the parsed tree, parsing that output and exporting again
\* gives the text of the first export, byte for byte.
C1_ExportIdempotent ==
    (pc = "exported" /\ round = 2) => ex.out = out1

(***************************************************************************)
(* Trees given to the exporter.  The parsers of headings, lists, tables and  *)
(* macro calls are not among the source files, so the trees they build are   *)
(* written down directly: a tree description is a record [expr, pre, post,   *)
(* kids, ...] and AllocTree stores it in a pool the way the element parsers  *)
(* do (reserve_id, the children, alloc_with_id), giving every node the span  *)
(* of its text: pre bytes, its children, post bytes.                         *)
(***************************************************************************)
MaxItems == 4       \* items of a list document
MaxHeadings == 3    \* headings of a heading document
MaxRows == 2        \* rows of a table
MaxCols == 2        \* cells of a table row
MaxElems == 2       \* elements of a document with includes and macro calls

T_Plain(txt) == [expr |-> "Plain", pre |-> Len(txt), post |-> 0, kids |-> <<>>,
                 text |-> txt]
T_Paragraph(kids) == [expr |-> "Paragraph", pre |-> 0, post |-> 1, kids |-> kids]
T_Root(kids) == [expr |-> "Root", pre |-> 0, post |-> 0, kids |-> kids]
T_Macro(resolves) == [expr |-> "Macro", pre |-> 7, post |-> 0, kids |-> <<>>,
                      resolves |-> resolves]
T_Keyword(key, val) == [expr |-> "Keyword", pre |-> 4 + Len(key) + Len(val), post |-> 0,
                        kids |-> <<>>, key |-> key, val |-> val]
T_PlainList(kids) == [expr |-> "PlainList", pre |-> 0, post |-> 0, kids |-> kids]
T_Item(bullet, kids) == [expr |-> "Item", pre |-> 2, post |-> 0, kids |-> kids,
                         bullet |-> bullet]
T_Table(cols, kids) == [expr |-> "Table", pre |-> 0, post |-> 0, kids |-> kids,
                        cols |-> cols]
T_TableRow(row, kids) == [expr |-> "TableRow", pre |-> 1, post |-> 1, kids |-> kids,
                          row |-> row]
T_TableCell(kids) == [expr |-> "TableCell", pre |-> 0, post |-> 1, kids |-> kids]
\* kids: the title objects, then the elements and headings under the heading
T_Heading(level, src_tags, ntitle, kids) ==
    [expr |-> "Heading", pre |-> level + 1, post |-> 0, kids |-> kids,
     heading_level |-> level, src_tags |-> src_tags, ntitle |-> ntitle]

\* the tags of a heading as the heading parser keeps them: the tags of the
\* line from the last to the first, then a reference to the parent heading
StoredTags(src_tags, parent_heading) ==
    LET raw == Reverse([i \in 1..Len(src_tags) |-> [t |-> "Raw", val |-> src_tags[i]]])
        all == raw \o (IF IsSome(parent_heading)
                       THEN <<[t |-> "Loc", id |-> Unwrap(parent_heading)]>> ELSE <<>>)
    IN IF Len(all) = 0 THEN None ELSE Some(all)

RECURSIVE AllocTree(_, _, _, _, _)
RECURSIVE AllocKids(_, _, _, _, _, _)

\* the Parser holding the tree of a Root description
BuildParser(root) == [NewParser EXCEPT !.pool = AllocTree(NewPool, root, None, None, 0).pool]

\* what macro_handle gives for a call: the text of an expansion that holds
\* markup is parsed by parse_macro_call
Resolved(resolves) ==
    IF resolves.t = "Owned"
    THEN [t |-> "Owned", parsed |-> BuildParser(resolves.expansion)]
    ELSE resolves

\* the Expr stored for a description whose children got the ids `ids`
ObjOf(t, ids, parent_heading) ==
    CASE t.expr = "Plain" -> [expr |-> "Plain", text |-> t.text]
      [] t.expr = "Macro" -> [expr |-> "Macro", resolves |-> Resolved(t.resolves)]
      [] t.expr = "Keyword" -> Keyword(t.key, t.val)
      [] t.expr = "Item" ->
           [expr |-> "Item", bullet |-> t.bullet, counter_set |-> None,
            check_box |-> None, tag |-> None, children |-> ids]
      [] t.expr = "Table" ->
           [expr |-> "Table", rows |-> Len(ids), cols |-> t.cols, children |-> ids]
      [] t.expr = "TableRow" -> [expr |-> "TableRow", row |-> t.row, cells |-> ids]
      [] t.expr = "Heading" ->
           [expr |-> "Heading", heading_level |-> t.heading_level, keyword |-> None,
            priority |-> None, title |-> Some(SubSeq(ids, 1, t.ntitle)),
            tags |-> StoredTags(t.src_tags, parent_heading),
            children |-> IF Len(ids) > t.ntitle
                         THEN Some(SubSeq(ids, t.ntitle + 1, Len(ids))) ELSE None]
      [] OTHER -> [expr |-> t.expr, children |-> ids]

\* the children of one node, one after the other: [pool, ids, end]
AllocKids(pool, kids, parent, parent_heading, at, ids) ==
    IF Len(kids) = 0 THEN [pool |-> pool, ids |-> ids, end |-> at]
    ELSE LET k == AllocTree(pool, Head(kids), parent, parent_heading, at)
         IN IF k.end < at THEN [pool |-> k.pool, ids |-> ids, end |-> at]
            ELSE AllocKids(k.pool, Tail(kids), parent, parent_heading, k.end,
                           Append(ids, k.id))

\* [pool, id, end]; parent_heading is the parent when it is a heading
AllocTree(pool, t, parent, parent_heading, at) ==
    LET rsv == reserve_id(pool)
        ks == AllocKids(rsv.pool, t.kids, Some(rsv.id),
                        IF t.expr = "Heading" THEN Some(rsv.id) ELSE None,
                        at + t.pre, <<>>)
        a == alloc_with_id(ks.pool, ObjOf(t, ks.ids, parent_heading), at,
                           ks.end + t.post, parent, rsv.id)
    IN [pool |-> a.pool, id |-> rsv.id, end |-> ks.end + t.post]

(***************************************************************************)
(* The documents exported: lists, headings, tables, and documents with      *)
(* includes and macro calls.                                                *)
(***************************************************************************)
\* outlines: the depth of each item (heading) in document order; the first is
\* at depth 0 and an item is at most one deeper than the one before
RECURSIVE DepthSeqs(_)
DepthSeqs(n) ==
    IF n <= 1 THEN {<<0>>}
    ELSE LET shorter == DepthSeqs(n - 1)
         IN shorter \cup UNION {{Append(q, d) : d \in 0..(q[Len(q)] + 1)} :
                                 q \in {t \in shorter : Len(t) = n - 1}}

RECURSIVE SortedSeq(_)
SortedSeq(S) ==
    IF S = {} THEN <<>>
    ELSE LET m == CHOOSE x \in S : \A y \in S : x <= y
         IN <<m>> \o SortedSeq(S \ {m})

TopOf(ds) == SortedSeq({j \in 1..Len(ds) : ds[j] = 0})
ChildrenOf(ds, i) ==
    SortedSeq({j \in (i + 1)..Len(ds) :
                  /\ ds[j] = ds[i] + 1
                  /\ \A k \in (i + 1)..j : ds[k] > ds[i]})

Label(i) == <<LOWER[i]>>

\* a list: item i holds a paragraph with its label, then the list of its sub-items
BulletOf(ordered, pos) ==
    IF ordered THEN [t |-> "Number", v |-> <<DIGITS[pos + 1]>>] ELSE [t |-> "Unordered"]

RECURSIVE ItemTrees(_, _, _, _)
ItemTrees(ds, idxs, pos, ordered) ==
    IF Len(idxs) = 0 THEN <<>>
    ELSE LET i == Head(idxs)
             sub == ItemTrees(ds, ChildrenOf(ds, i), 1, ordered)
         IN <<T_Item(BulletOf(ordered, pos),
                     <<T_Paragraph(<<T_Plain(Label(i))>>)>>
                     \o (IF Len(sub) = 0 THEN <<>> ELSE <<T_PlainList(sub)>>))>>
            \o ItemTrees(ds, Tail(idxs), pos + 1, ordered)

ListTree(d) == T_Root(<<T_PlainList(ItemTrees(d.ds, TopOf(d.ds), 1, d.ordered))>>)

\* headings: heading i has its label as title and the tags tags[i] on its line
TagChoices == {<<>>, << <<"x">> >>, << <<"x">>, <<"y", "z">> >>}

RECURSIVE HeadingTrees(_, _, _)
HeadingTrees(ds, tags, idxs) ==
    IF Len(idxs) = 0 THEN <<>>
    ELSE LET i == Head(idxs)
         IN <<T_Heading(ds[i] + 1, tags[i], 1,
                        <<T_Plain(Label(i))>> \o HeadingTrees(ds, tags, ChildrenOf(ds, i)))>>
            \o HeadingTrees(ds, tags, Tail(idxs))

HeadingsTree(d) == T_Root(HeadingTrees(d.ds, d.tags, TopOf(d.ds)))

\* tables: a row is <<0>> (a rule) or the texts of its cells, by number
CellTexts == << <<"a">>, <<"b", "c">> >>
RuleRow == <<0>>

RECURSIVE CellRows(_)
CellRows(n) ==
    IF n = 0 THEN {<<>>}
    ELSE LET shorter == CellRows(n - 1)
         IN shorter \cup {Append(r, c) : r \in {t \in shorter : Len(t) = n - 1},
                                         c \in 1..Len(CellTexts)}

TableRows == {RuleRow} \cup CellRows(MaxCols)

RowLen(row) == IF row = RuleRow THEN 0 ELSE Len(row)

RECURSIVE MaxRowLen(_)
MaxRowLen(rows) == IF Len(rows) = 0 THEN 0 ELSE Max(RowLen(Head(rows)), MaxRowLen(Tail(rows)))

RowTree(row) ==
    IF row = RuleRow THEN T_TableRow("Rule", <<>>)
    ELSE T_TableRow("Standard",
                    [c \in 1..Len(row) |-> T_TableCell(<<T_Plain(CellTexts[row[c]])>>)])

TableTree(d) ==
    T_Root(<<T_Table(MaxRowLen(d.rows), [r \in 1..Len(d.rows) |-> RowTree(d.rows[r])])>>)

\* documents with includes and macro calls, by number
MacroErr == T_Macro([t |-> "Err"])
Elems == <<
    T_Paragraph(<<T_Plain(<<"a">>)>>),
    T_Paragraph(<<T_Plain(<<"b">>), MacroErr, T_Plain(<<"c">>)>>),
    T_Paragraph(<<T_Macro([t |-> "Borrowed", r |-> <<"r">>])>>),
    T_Paragraph(<<T_Macro([t |-> "Owned",
                           expansion |-> T_Root(<<T_Plain(<<"x">>), MacroErr,
                                                  T_Plain(<<"y">>)>>)])>>),
    T_Keyword(S_include, <<"g">>),
    T_Keyword(S_include, <<"f">>),
    T_PlainList(<<T_Item([t |-> "Unordered"],
                         <<T_Paragraph(<<T_Plain(<<"d">>), MacroErr>>)>>)>>),
    T_Table(1, <<T_TableRow("Standard", <<T_TableCell(<<T_Plain(<<"e">>), MacroErr>>)>>)>>)
>>

ElemsTree(d) == T_Root([i \in 1..Len(d.elems) |-> Elems[d.elems[i]]])

ListDocs ==
    {[kind |-> "list", ds |-> ds, ordered |-> o] : ds \in DepthSeqs(MaxItems), o \in BOOLEAN}
HeadingDocs ==
    UNION {{[kind |-> "headings", ds |-> ds, tags |-> tg] :
               tg \in [1..Len(ds) -> TagChoices]} : ds \in DepthSeqs(MaxHeadings)}
TableDocs ==
    {[kind |-> "table", rows |-> rows] :
        rows \in LineSeqs(TableRows, MaxRows) \ {<<>>}}
ElemDocs ==
    {[kind |-> "elems", elems |-> es] :
        es \in LineSeqs(1..Len(Elems), MaxElems) \ {<<>>}}

ExportDocs == ListDocs \cup HeadingDocs \cup TableDocs \cup ElemDocs

DocTree(d) ==
    CASE d.kind = "list" -> ListTree(d)
      [] d.kind = "headings" -> HeadingsTree(d)
      [] d.kind = "table" -> TableTree(d)
      [] OTHER -> ElemsTree(d)

\* the exporter is given the tree of a document
InitExport ==
    /\ input \in ExportDocs
    /\ text = <<>>
    /\ parser = BuildParser(DocTree(input))
    /\ cursor = 0
    /\ content = <<>>
    /\ pc = "parsed"
    /\ round = 1
    /\ ex = NewOrg
    /\ ret = "none"
    /\ out1 = <<>>
    /\ calls = <<>>
    /\ properties = EmptyMap

NextExport == ExportTree
SpecExport == InitExport /\ [][NextExport]_vars

\* the same parse over documents of macro definition lines
InitMacro == InitWith(MacroInputs)
SpecMacro == InitMacro /\ [][Next]_vars

(***************************************************************************)
(* Properties of the parse.                                                 *)
(***************************************************************************)
PoolIds == 0..(Len(parser.pool.inner_vec) - 1)
NodeAt(id) == PoolAt(parser.pool, id)

\* the nodes a container node holds
Held(n) ==
    CASE n.obj.expr = "Block" /\ ~n.obj.lesser -> SeqRange(n.obj.contents)
      [] n.obj.expr = "Affiliated" -> SeqRange(n.obj.child_id)
      [] OTHER -> {}

\* the lines of a document with the offset each starts at
RECURSIVE SplitLines(_, _)
SplitLines(doc, from) ==
    IF from >= Len(doc) THEN <<>>
    ELSE LET e == ScanUntil(doc, Len(doc), from, {NEWLINE})
             stop == Min(e + 1, Len(doc))
         IN <<[start |-> from, line |-> Slice(doc, from, stop)]>>
            \o SplitLines(doc, stop)

\* C2: the top-level parse returns a tree for every input buffer: no rule of
\* Block::parse, Keyword::parse or MacroDef::parse aborts (unreachable!, index
\* out of range), whatever the letter case of a block name and also when the
\* last line is cut by the end of the buffer.
C2_ParseNeverAborts == pc # "abort"

\* C3: every node allocated by Block::parse or Keyword::parse has
\* start <= end <= buffer length, and a container (greater block, affiliated
\* keyword) spans every node it holds.
C3_SpanInvariants ==
    \A id \in PoolIds :
        LET n == NodeAt(id)
        IN n.obj.expr \in {"Block", "Keyword", "Affiliated", "MacroDef"} =>
             /\ n.start <= n.end
             /\ n.end <= Len(text)
             /\ \A c \in Held(n) : /\ c \in PoolIds
                                   /\ n.start <= NodeAt(c).start
                                   /\ NodeAt(c).end <= n.end

\* a finished parse with a greater block holding an affiliated keyword that
\* holds the element after it
C3_Witness ==
    /\ pc = "parsed"
    /\ \E id \in PoolIds :
          /\ NodeAt(id).obj.expr = "Block"
          /\ \E c \in Held(NodeAt(id)) :
                /\ NodeAt(c).obj.expr = "Affiliated"
                /\ Held(NodeAt(c)) # {}

IsMacroLine(l) == l.line \in {L_macro_m, L_macro_M}
\* NAME of a `#+macro: NAME BODY` line
MacroLineName(l) ==
    Slice(l.line, 9, ScanUntil(l.line, Len(l.line), 9, {" "}))

\* C10: after parsing a sequence of well-formed `#+macro: NAME BODY` lines the
\* macro table maps each NAME (case-sensitive) to the id of the last line
\* defining it, and that id is a MacroDef node of the pool.
C10_MacroTableLastDefinition ==
    LET ls == SplitLines(input, 0)
    IN (pc = "parsed" /\ \A i \in 1..Len(ls) : IsMacroLine(ls[i])) =>
         \A i \in 1..Len(ls) :
            LET name == MacroLineName(ls[i])
                last == CHOOSE j \in 1..Len(ls) :
                           /\ MacroLineName(ls[j]) = name
                           /\ \A k \in (j + 1)..Len(ls) : MacroLineName(ls[k]) # name
            IN /\ name \in DOMAIN parser.macros
               /\ parser.macros[name] \in PoolIds
               /\ NodeAt(parser.macros[name]).obj.expr = "MacroDef"
               /\ NodeAt(parser.macros[name]).start = ls[last].start

(***************************************************************************)
(* Properties of the export.                                                *)
(***************************************************************************)
OutLines == SplitLines(ex.out, 0)
Spaces(n) == Repeat(<<" ">>, n)

RECURSIVE CountByte(_, _)
CountByte(q, c) ==
    IF Len(q) = 0 THEN 0
    ELSE (IF Head(q) = c THEN 1 ELSE 0) + CountByte(Tail(q), c)

SetMax(S) == IF S = {} THEN 0 ELSE CHOOSE x \in S : \A y \in S : y <= x

\* the cells of the data rows of a table document
DataRows(d) == {r \in 1..Len(d.rows) : d.rows[r] # RuleRow}
CellText(d, r, c) == IF c <= Len(d.rows[r]) THEN CellTexts[d.rows[r][c]] ELSE <<>>

\* C4: every rendered data row of a table with `cols` columns has exactly
\* cols cells, that is cols + 1 bars: short rows are completed with blank
\* cells and no row has more.
C4_DataRowsHaveColsCells ==
    (pc = "exported" /\ input.kind = "table") =>
        /\ Len(OutLines) = Len(input.rows)
        /\ \A r \in DataRows(input) :
              CountByte(OutLines[r].line, VBAR) = MaxRowLen(input.rows) + 1

\* C5: the width of column c is the greatest length of a cell c over the data
\* rows (0 without such a cell); a cell is written as a space, its text,
\* width - length spaces and " |", and width - length is never negative.
C5_ColumnWidthIsMax ==
    input.kind = "table" =>
        /\ pc # "abort"
        /\ pc = "exported" =>
             LET cols == MaxRowLen(input.rows)
                 width(c) == SetMax({Len(CellText(input, r, c)) : r \in DataRows(input)})
                 cell(r, c) == <<" ">> \o CellText(input, r, c)
                               \o Spaces(width(c) - Len(CellText(input, r, c)))
                               \o <<" ", "|">>
             IN \A r \in DataRows(input) :
                   Len(input.rows[r]) > 0 =>
                      /\ \A c \in 1..cols : width(c) >= Len(CellText(input, r, c))
                      /\ OutLines[r].line =
                            <<"|">> \o Flatten([c \in 1..cols |-> cell(r, c)]) \o <<NEWLINE>>

\* an exported table with a padded cell and a row completed with a blank cell
C5_Witness ==
    /\ pc = "exported"
    /\ input.kind = "table"
    /\ \E r1, r2 \in DataRows(input) :
          /\ Len(input.rows[r1]) = 1
          /\ Len(input.rows[r2]) = 2
          /\ Len(CellText(input, r1, 1)) # Len(CellText(input, r2, 1))

\* the bullet the exporter writes for item i of a list document
SiblingPos(ds, i) ==
    1 + Cardinality({j \in 1..(i - 1) : /\ ds[j] = ds[i]
                                        /\ \A k \in j..i : ds[k] >= ds[i]})
BulletText(d, i) ==
    IF d.ordered THEN <<DIGITS[SiblingPos(d.ds, i) + 1], ".">> ELSE <<"-">>

ExportedKids(obj) ==
    CASE obj.expr \in {"Root", "Paragraph", "PlainList", "Item", "TableCell", "Table"} ->
            obj.children
      [] obj.expr = "TableRow" -> obj.cells
      [] obj.expr = "Heading" ->
            (IF IsSome(obj.title) THEN Unwrap(obj.title) ELSE <<>>)
            \o (IF IsSome(obj.children) THEN Unwrap(obj.children) ELSE <<>>)
      [] obj.expr = "Block" /\ ~obj.lesser -> obj.contents
      [] OTHER -> <<>>

RECURSIVE Failures(_, _)
Failures(P, id) ==
    LET n == PoolAt(P.pool, id)
        here == [span |-> <<n.start, n.end>>,
                 source |-> IF n.obj.expr = "Macro" THEN "Macro" ELSE "Include"]
        kids == ExportedKids(n.obj)
    IN CASE n.obj.expr = "Macro" /\ n.obj.resolves.t = "Err" -> <<here>>
         [] n.obj.expr = "Macro" /\ n.obj.resolves.t = "Owned" ->
              Failures(n.obj.resolves.parsed, RootId)
         [] n.obj.expr = "Keyword" /\ to_lowercase(n.obj.key) = S_include
               /\ n.obj.val \notin IncludeFiles -> <<here>>
         [] OTHER -> Flatten([k \in 1..Len(kids) |-> Failures(P, kids[k])])

\* C7: export_tree returns Ok only if no include or macro call failed anywhere
\* in the tree, and every failure (top level, list item, table cell, nested
\* expansion) is in the error list it returns.
C7_EveryFailureReturned ==
    pc = "exported" =>
        /\ SeqRange(Failures(parser, RootId)) \subseteq SeqRange(Self(ex).errors)
        /\ ret = "Ok" => Len(Failures(parser, RootId)) = 0

\* a tree description without its failing includes and macro calls
FailsToResolve(t) ==
    \/ t.expr = "Macro" /\ t.resolves.t = "Err"
    \/ t.expr = "Keyword" /\ to_lowercase(t.key) = S_include /\ t.val \notin IncludeFiles

RECURSIVE Pruned(_)
PrunedKids(kids) ==
    LET keep == SortedSeq({k \in 1..Len(kids) : ~FailsToResolve(kids[k])})
    IN [k \in 1..Len(keep) |-> Pruned(kids[keep[k]])]
Pruned(t) ==
    IF t.expr = "Macro" /\ t.resolves.t = "Owned"
    THEN [t EXCEPT !.resolves.expansion = Pruned(@)]
    ELSE [t EXCEPT !.kids = PrunedKids(@)]

RECURSIVE FailsInCell(_, _)
FailsInCell(t, in_cell) ==
    \/ in_cell /\ FailsToResolve(t)
    \/ \E k \in 1..Len(t.kids) : FailsInCell(t.kids[k], in_cell \/ t.expr = "TableCell")

\* C8: a failing include or macro call adds one LogicError with the span of
\* its node, writes nothing, and the export goes on with what follows: the
\* output is that of the document without the failing nodes, and the errors
\* are the failing nodes in document order.
C8_FailureSkipsNode ==
    (pc = "exported" /\ input.kind = "elems") =>
        /\ ex.out = export_tree(BuildParser(Pruned(DocTree(input)))).st.out
        /\ ~FailsInCell(DocTree(input), FALSE) =>
              Self(ex).errors = Failures(parser, RootId)

\* an export that met a failing include and a failing macro call, with text
\* written after the first of them
C8_Witness ==
    /\ pc = "exported"
    /\ input.kind = "elems"
    /\ ~FailsInCell(DocTree(input), FALSE)
    /\ {e.source : e \in SeqRange(Self(ex).errors)} = {"Include", "Macro"}
    /\ Len(ex.out) > 0
    /\ input.elems[Len(input.elems)] = 2

\* the tag suffix of a heading line whose tags are src_tags
TagSuffix(src_tags) ==
    IF Len(src_tags) = 0 THEN <<>>
    ELSE <<" ">> \o Flatten([k \in 1..Len(src_tags) |-> <<":">> \o src_tags[k]])
         \o <<":">>

\* C9: a heading is written with the tags of its own line, in the order of
\* the line, as " :t1:t2:"; the reference to the parent heading writes
\* nothing and a heading without a tag of its own has no suffix.
C9_HeadingOwnTags ==
    (pc = "exported" /\ input.kind = "headings") =>
        /\ Len(OutLines) = Len(input.ds)
        /\ \A i \in 1..Len(input.ds) :
              OutLines[i].line =
                 Repeat(<<"*">>, input.ds[i] + 1) \o <<" ">> \o Label(i)
                 \o TagSuffix(input.tags[i]) \o <<NEWLINE>>

\* an exported heading with two tags whose sub-heading has none of its own
C9_Witness ==
    /\ pc = "exported"
    /\ input.kind = "headings"
    /\ Len(input.ds) >= 2
    /\ input.ds[2] = 1
    /\ Len(input.tags[1]) = 2
    /\ Len(input.tags[2]) = 0
    /\ IsSome(PoolAt(parser.pool, 3).obj.tags)

\* ---------------------------------------------------------------------
\* The node pool called directly
\* ---------------------------------------------------------------------

\* the number of calls made on one pool
MaxCalls == 4

\* payloads handed to the pool: a leaf, a branch listing 1 twice, a blank line
PoolObjs ==
    << [expr |-> "Plain", text |-> <<"a">>],
       [expr |-> "Paragraph", children |-> <<1, 2, 1>>],
       [expr |-> "BlankLine"] >>

PoolParents == {None, Some(0)}

PoolCall(op, id, panic) == [op |-> op, id |-> id, panic |-> panic]

InitPool ==
    /\ input = <<>>
    /\ text = <<>>
    /\ parser = NewParser
    /\ cursor = 0
    /\ content = <<>>
    /\ pc = "pool"
    /\ round = 1
    /\ ex = NewOrg
    /\ ret = "none"
    /\ out1 = <<>>
    /\ calls = <<>>
    /\ properties = EmptyMap

\* what every call on the pool does with its result r = [pool, id, panic]
PoolStep(op, r) ==
    /\ parser' = [parser EXCEPT !.pool = r.pool]
    /\ calls' = Append(calls, PoolCall(op, r.id, r.panic))
    /\ pc' = IF r.panic THEN "abort" ELSE "pool"
    /\ UNCHANGED <<input, text, cursor, content, round, ex, ret, out1, properties>>

PoolAlloc ==
    /\ pc = "pool"
    /\ Len(calls) < MaxCalls
    /\ \E i \in 1..Len(PoolObjs), parent \in PoolParents :
          LET Done(r) == PoolStep("alloc", [pool |-> r.pool, id |-> r.id, panic |-> FALSE])
          IN Done(alloc(parser.pool, PoolObjs[i], 0, 1, parent))

PoolReserve ==
    /\ pc = "pool"
    /\ Len(calls) < MaxCalls
    /\ LET Done(r) == PoolStep("reserve_id", [pool |-> r.pool, id |-> r.id, panic |-> FALSE])
       IN Done(reserve_id(parser.pool))

PoolAllocWithId ==
    /\ pc = "pool"
    /\ Len(calls) < MaxCalls
    /\ \E i \in 1..Len(PoolObjs), target \in 0..2 :
          PoolStep("alloc_with_id",
                   alloc_with_id(parser.pool, PoolObjs[i], 0, 1, None, target))

PoolDelete ==
    /\ pc = "pool"
    /\ Len(calls) < MaxCalls
    /\ \E index_id \in 0..2 :
          LET Done(r) == PoolStep("delete_node", [pool |-> r.pool, id |-> index_id, panic |-> r.panic])
          IN Done(delete_node(parser.pool, index_id))

NextPool == PoolAlloc \/ PoolReserve \/ PoolAllocWithId \/ PoolDelete
SpecPool == InitPool /\ [][NextPool]_vars

\* the calls of alloc and reserve_id, in the order they were made
IdCalls == SelectSeq(calls, LAMBDA c : c.op \in {"alloc", "reserve_id"})

\* C11: whatever alloc, reserve_id, alloc_with_id and delete_node calls were
\* made, the k-th call of alloc or reserve_id returned id k - 1, counter is
\* the number of slots, and no step takes a slot away.
C11_IdsCountSlots ==
    /\ [](pc \in {"pool", "abort"} =>
            /\ \A k \in 1..Len(IdCalls) : IdCalls[k].id = k - 1
            /\ parser.pool.counter = Len(parser.pool.inner_vec))
    /\ [][Len(parser'.pool.inner_vec) >= Len(parser.pool.inner_vec)]_vars

\* an id handed out after an overwrite or a deletion that went through, and
\* after an earlier id
C11_Witness ==
    /\ pc = "pool"
    /\ Len(IdCalls) >= 2
    /\ \E i, j \in 1..Len(calls) :
          /\ i < j
          /\ calls[i].op \in {"alloc_with_id", "delete_node"}
          /\ ~calls[i].panic
          /\ calls[j].op \in {"alloc", "reserve_id"}

\* the call a step of the pool has just made
LastCall == calls'[Len(calls')]

\* the child list of a branch payload
ChildList(obj) == IF "children" \in DOMAIN obj THEN obj.children ELSE obj.contents

\* C12: delete_node(i), for a node i whose parent lists it, takes one
\* occurrence of i out of the parent's child list and keeps the other ids in
\* their order; the slots, counter, every other node and the rest of the
\* parent (node i itself included) stay as they were.
C12_DeleteFrame ==
    [][(Len(calls') = Len(calls) + 1 /\ LastCall.op = "delete_node" /\ ~LastCall.panic) =>
         LET i == LastCall.id
             par == Unwrap(PoolAt(parser.pool, i).parent)
             old == PoolAt(parser.pool, par)
             new == PoolAt(parser'.pool, par)
         IN /\ \E k \in 1..Len(ChildList(old.obj)) :
                  /\ ChildList(old.obj)[k] = i
                  /\ ChildList(new.obj) =
                        [n \in 1..(Len(ChildList(old.obj)) - 1) |->
                            ChildList(old.obj)[IF n < k THEN n ELSE n + 1]]
            /\ DOMAIN new.obj = DOMAIN old.obj
            /\ \A f \in DOMAIN old.obj \ {"children", "contents"} : new.obj[f] = old.obj[f]
            /\ new.start = old.start /\ new.end = old.end /\ new.parent = old.parent
            /\ parser'.pool.counter = parser.pool.counter
            /\ Len(parser'.pool.inner_vec) = Len(parser.pool.inner_vec)
            /\ \A id \in 0..(Len(parser.pool.inner_vec) - 1) :
                  id # par => PoolAt(parser'.pool, id) = PoolAt(parser.pool, id)
            /\ parser'.macros = parser.macros /\ parser'.keywords = parser.keywords]_vars

\* node 1 was deleted from a parent that listed it twice: the later
\* occurrence and the other child are still there, in their order
C12_Witness ==
    /\ pc = "pool"
    /\ Len(calls) >= 1
    /\ calls[Len(calls)] = PoolCall("delete_node", 1, FALSE)
    /\ PoolAt(parser.pool, 0).obj.expr = "Paragraph"
    /\ PoolAt(parser.pool, 0).obj.children = <<2, 1>>
    /\ PoolAt(parser.pool, 1).parent = Some(0)

\* C20: alloc_with_id on a slot that exists overwrites that slot and nothing
\* else and returns the target; on a target that is no slot it panics and the
\* pool is as before.
C20_AllocWithIdFrame ==
    [][(Len(calls') = Len(calls) + 1 /\ LastCall.op = "alloc_with_id") =>
         IF LastCall.id < Len(parser.pool.inner_vec)
         THEN /\ ~LastCall.panic
              /\ Len(parser'.pool.inner_vec) = Len(parser.pool.inner_vec)
              /\ parser'.pool.counter = parser.pool.counter
              /\ \A id \in 0..(Len(parser.pool.inner_vec) - 1) :
                    id # LastCall.id => PoolAt(parser'.pool, id) = PoolAt(parser.pool, id)
              /\ \E i \in 1..Len(PoolObjs) :
                    PoolAt(parser'.pool, LastCall.id) = Node(PoolObjs[i], 0, 1, None)
         ELSE /\ LastCall.panic
              /\ parser' = parser]_vars

\* a reserved slot next to another node was overwritten by alloc_with_id
C20_Witness ==
    /\ pc = "pool"
    /\ Len(calls) >= 3
    /\ calls[Len(calls)] = PoolCall("alloc_with_id", 1, FALSE)
    /\ calls[Len(calls) - 1].op = "reserve_id"
    /\ Len(parser.pool.inner_vec) = 2
    /\ PoolAt(parser.pool, 1).obj.expr = "Paragraph"

\* alloc_with_id was called on a target that is no slot and panicked
C20_WitnessPanic ==
    /\ pc = "abort"
    /\ calls[Len(calls)] = PoolCall("alloc_with_id", 2, TRUE)
    /\ Len(parser.pool.inner_vec) = 2

\* the ids a node lists: its child list and an affiliated keyword's child
Listed(n) ==
    Held(n) \cup (IF "children" \in DOMAIN n.obj THEN SeqRange(n.obj.children) ELSE {})

\* every id written in a child list, a child field or a parent field
ReferredIds ==
    UNION {Listed(NodeAt(id)) \cup SeqRange(NodeAt(id).parent) : id \in PoolIds}

\* following the parent links from id arrives at the root, no node met twice
RECURSIVE ClimbsToRoot(_, _)
ClimbsToRoot(id, seen) ==
    IF id = RootId THEN TRUE
    ELSE IF id \notin PoolIds \/ id \in seen \/ ~IsSome(NodeAt(id).parent) THEN FALSE
    ELSE ClimbsToRoot(Unwrap(NodeAt(id).parent), seen \cup {id})

\* C13: after a parse every id found in a child list, in the child field of
\* an affiliated keyword or in a parent field is the id of a slot, and the
\* parent links from it lead to node 0 without passing a node twice.
C13_IdsInPoolAndRooted ==
    pc = "parsed" =>
       \A id \in ReferredIds : id \in PoolIds /\ ClimbsToRoot(id, {})

\* a finished parse with a text inside a paragraph inside a greater block,
\* and an affiliated keyword that has a child
C13_Witness ==
    /\ pc = "parsed"
    /\ \E a, b, c \in PoolIds :
          /\ NodeAt(c).obj.expr = "Plain" /\ NodeAt(c).parent = Some(b)
          /\ NodeAt(b).obj.expr = "Paragraph" /\ NodeAt(b).parent = Some(a)
          /\ c \in Listed(NodeAt(b)) /\ b \in Listed(NodeAt(a))
          /\ NodeAt(a).obj.expr = "Block" /\ NodeAt(a).parent = Some(RootId)
    /\ \E k \in PoolIds : NodeAt(k).obj.expr = "Affiliated" /\ Held(NodeAt(k)) # {}

\* ---------------------------------------------------------------------
\* The sink written to directly
\* ---------------------------------------------------------------------

\* the length of the strings written to the sink
MaxText == 3

SinkLevels == 0..2

\* the strings of at most n bytes over a letter and the newline
RECURSIVE SinkStrings(_)
SinkStrings(n) ==
    IF n = 0 THEN {<<>>}
    ELSE LET Shorter(q) == q \cup {Append(t, b) : t \in q, b \in {"a", NEWLINE}}
         IN Shorter(SinkStrings(n - 1))

\* an exporter at some indentation level, at the start of a line or not,
\* about to be handed a string
InitSink ==
    /\ input \in SinkStrings(MaxText)
    /\ text = <<>>
    /\ parser = NewParser
    /\ cursor = 0
    /\ content = <<>>
    /\ pc = "sink"
    /\ round = 1
    /\ \E level \in SinkLevels, on_newline \in BOOLEAN :
          ex = [NewOrg EXCEPT !.frames = <<Frame(level, on_newline)>>]
    /\ ret = "none"
    /\ out1 = <<>>
    /\ calls = <<>>
    /\ properties = EmptyMap

\* self.write_str(input)
SinkWrite ==
    /\ pc = "sink"
    /\ ex' = write_str(ex, input)
    /\ calls' = Append(calls, [op |-> "write_str",
                               level |-> Self(ex).indentation_level,
                               on_newline |-> Self(ex).on_newline])
    /\ pc' = "written"
    /\ UNCHANGED <<input, text, parser, cursor, content, round, ret, out1, properties>>

NextSink == SinkWrite
SpecSink == InitSink /\ [][NextSink]_vars

\* the lines of s, each once, with 2 * level spaces before a line that
\* starts right after a newline
RECURSIVE IndentedLines(_, _, _)
IndentedLines(chunks, level, on_newline) ==
    IF Len(chunks) = 0 THEN <<>>
    ELSE (IF on_newline THEN Repeat(<<" ">>, 2 * level) ELSE <<>>)
         \o Head(chunks)
         \o IndentedLines(Tail(chunks), level, ends_with_newline(Head(chunks)))

\* C14: a string written at indentation level L > 0 reaches the sink as its
\* lines in order, each once, with 2 * L spaces before every line that
\* starts right after a newline; at level 0 it reaches the sink unchanged.
C14_LinesForwardedOnce ==
    pc = "written" =>
       ex.out = IF calls[1].level > 0
                THEN IndentedLines(split_inclusive(input), calls[1].level,
                                   calls[1].on_newline)
                ELSE input

\* ---------------------------------------------------------------------
\* Block::parse and Keyword::parse called directly at the start of a buffer
\* ---------------------------------------------------------------------

L_end_quote_indented == <<" ">> \o L_end_quote
L_end_quote_prefixed == <<"a">> \o L_end_quote
T_end_quote == <<"#","+","e","n","d","_","q","u","o","t","e">>

\* the line a rule is tried on
RuleHeads == {L_begin_quote, L_begin_example, L_begin_SRC, L_name, L_key, L_text}
\* the lines after it: text, end markers at column 0, indented and after text
RuleLines == {L_text, L_end_quote, L_end_quote_indented, L_end_quote_prefixed,
              L_end_example}
\* an end marker cut by the end of the buffer
RuleTails == {<<>>, T_end_quote}

RuleInputs ==
    {h \o d : h \in RuleHeads, d \in Documents(RuleLines, RuleTails, MaxLines - 1)}

InitRule ==
    /\ InitWith(RuleInputs \cup {T_begin_quote})
    /\ pc = "parse"

\* what a direct call of a rule leaves behind: the parser state, and in calls
\* the result with the state the call started from
RuleReturn(op, r) ==
    /\ parser' = r.P
    /\ calls' = Append(calls, [op |-> op, tag |-> r.tag,
                               id |-> IF r.tag = "ok" THEN r.id ELSE 0,
                               err |-> IF r.tag = "err" THEN r.err ELSE "",
                               before |-> parser])
    /\ pc' = IF r.tag = "abort" THEN "abort" ELSE "returned"
    /\ UNCHANGED <<input, text, cursor, content, round, ex, ret, out1, properties>>

\* Block::parse(parser, cursor at 0, Some(root))
BlockParse ==
    /\ pc = "parse"
    /\ calls = <<>>
    /\ RuleReturn("Block::parse", Block_parse(parser, text, Len(text), 0, Some(RootId)))

\* Keyword::parse(parser, cursor at 0, Some(root))
KeywordParse ==
    /\ pc = "parse"
    /\ calls = <<>>
    /\ RuleReturn("Keyword::parse", Keyword_parse(parser, text, Len(text), 0, Some(RootId)))

NextRule == BlockParse \/ KeywordParse
SpecRule == InitRule /\ [][NextRule]_vars

\* the lines of the buffer a rule was called on
RuleTextLines == SplitLines(text, 0)

\* a line without its newline
Chomp(l) == IF ends_with_newline(l) THEN SubSeq(l, 1, Len(l) - 1) ELSE l

\* the end token of the block a line opens
EndToken(head) ==
    CASE head = L_begin_quote -> T_end_quote
      [] head = L_begin_example -> Chomp(L_end_example)
      [] OTHER -> <<"#","+","e","n","d","_","s","r","c">>

\* line l is optional whitespace followed by the token
IsEndLine(l, token) == trim_start(Chomp(l)) = token

\* the first line after the first that is an end line for the block the
\* first line opens, 0 when there is none
ClosingLine(ls) ==
    LET Closing == {i \in 2..Len(ls) : IsEndLine(ls[i].line, EndToken(ls[1].line))}
    IN IF Closing = {} THEN 0 ELSE CHOOSE i \in Closing : \A j \in Closing : i <= j

\* Block::parse was called on a buffer whose first line opens a block
BlockCalled ==
    /\ pc \in {"returned", "abort"}
    /\ calls[1].op = "Block::parse"
    /\ Len(RuleTextLines) >= 1
    /\ RuleTextLines[1].line \in {L_begin_quote, L_begin_example}

\* the block returned by the call ends with line c and holds nothing from
\* line c on
ClosedAt(ls, c) ==
    /\ calls[1].tag = "ok"
    /\ NodeAt(calls[1].id).obj.expr = "Block"
    /\ NodeAt(calls[1].id).start = 0
    /\ NodeAt(calls[1].id).end = ls[c].start + Len(ls[c].line)
    /\ \A k \in Held(NodeAt(calls[1].id)) : NodeAt(k).end <= ls[c].start

\* C15: Block::parse closes a block at the first line after the begin line
\* that is optional whitespace followed by the #+end_<kind> token; a token
\* with other bytes before it on its line does not close the block.
C15_ClosesAtFirstEndLine ==
    (BlockCalled /\ ClosingLine(RuleTextLines) # 0) =>
        ClosedAt(RuleTextLines, ClosingLine(RuleTextLines))

\* Block::parse was called on a buffer whose first line opens a block that no
\* later line closes
UnclosedBlockCalled ==
    /\ pc \in {"returned", "abort"}
    /\ calls[1].op = "Block::parse"
    /\ Len(RuleTextLines) >= 1
    /\ RuleTextLines[1].line \in {L_begin_quote, L_begin_example, L_begin_SRC}
    /\ ClosingLine(RuleTextLines) = 0

\* C16: Block::parse returns InvalidLogic for a block without an acceptable
\* end marker, and a call of Block::parse or Keyword::parse that returns an
\* error leaves the pool and the macro and keyword tables as they were.
C16_ErrorLeavesStateAlone ==
    /\ UnclosedBlockCalled => (calls[1].tag = "err" /\ calls[1].err = "InvalidLogic")
    /\ (pc \in {"returned", "abort"} /\ calls[1].tag = "err") => parser = calls[1].before

\* the lesser blocks of a pool in the order of their ids: kind and contents
LesserBlocks(pool) ==
    LET Lesser == SelectSeq(pool.inner_vec,
                            LAMBDA n : n.obj.expr = "Block" /\ n.obj.lesser)
    IN [i \in 1..Len(Lesser) |-> [kind |-> Lesser[i].obj.kind,
                                   contents |-> Lesser[i].obj.contents]]

\* C17: a lesser block is one node without a child; its contents are the
\* bytes of the source between the begin line and the end-marker line; and
\* the parse of its export has a lesser block of the same kind and contents.
C17_LesserBlockVerbatim ==
    /\ (pc = "parsed" /\ round = 1) =>
          \A id \in PoolIds :
             (NodeAt(id).obj.expr = "Block" /\ NodeAt(id).obj.lesser) =>
                /\ \A k \in PoolIds : NodeAt(k).parent # Some(id)
                /\ NodeAt(id).obj.contents =
                      Slice(text, NodeAt(id).start + Len(L_begin_example),
                            NodeAt(id).end - Len(L_end_example))
    /\ (pc = "parsed" /\ round = 2) =>
          LesserBlocks(parser.pool) = LesserBlocks(calls[1].pool)

\* the greater blocks of the tree
GreaterBlocks == {id \in PoolIds : NodeAt(id).obj.expr = "Block" /\ ~NodeAt(id).obj.lesser}

\* C18: a greater block returned by Block::parse was reserved before its
\* children and filled afterwards: the ids in its contents are greater than
\* its own and have it as parent, they are in source order, every child ends
\* at or before the end-marker line, and no reserved slot is left unfilled.
C18_ReservedThenFilled ==
    pc = "parsed" =>
       /\ \A id \in PoolIds : NodeAt(id).obj # DefaultNode.obj
       /\ \A b \in GreaterBlocks :
             LET contents == NodeAt(b).obj.contents
             IN /\ \A i \in 1..Len(contents) :
                      /\ contents[i] \in PoolIds
                      /\ contents[i] > b
                      /\ NodeAt(contents[i]).parent = Some(b)
                      /\ NodeAt(b).start < NodeAt(contents[i]).start
                      /\ NodeAt(contents[i]).end <= NodeAt(b).end - Len(L_end_quote)
                /\ \A i \in 1..(Len(contents) - 1) :
                      /\ NodeAt(contents[i]).start < NodeAt(contents[i + 1]).start
                      /\ NodeAt(contents[i]).end <= NodeAt(contents[i + 1]).start

\* a finished parse with a greater block that holds two children, none of
\* them the last node of the pool
C18_Witness ==
    /\ pc = "parsed"
    /\ \E b \in GreaterBlocks :
          /\ Len(NodeAt(b).obj.contents) >= 2
          /\ NodeAt(b).parent = Some(RootId)
          /\ \E k \in PoolIds : \A i \in 1..Len(NodeAt(b).obj.contents) :
                k > NodeAt(b).obj.contents[i]

\* C19: between reserve_id and alloc_with_id the reserved slot holds a
\* payload that no parsed node carries: while the root is reserved and not
\* yet filled, its slot holds the payload of Node::default() and no other
\* slot holds that payload.
C19_PlaceholderDistinct ==
    pc = "parse" =>
       /\ NodeAt(RootId).obj = DefaultNode.obj
       /\ \A id \in PoolIds \ {RootId} : NodeAt(id).obj # NodeAt(RootId).obj

\* ---------------------------------------------------------------------
\* Keyword::parse called on keyword lines whose key is in any letter case
\* ---------------------------------------------------------------------

to_ascii_uppercase_byte(c) ==
    IF c \in SeqRange(LOWER)
    THEN UPPER[CHOOSE i \in 1..26 : LOWER[i] = c]
    ELSE c

\* the spellings of a key: every letter in lower or in upper case
RECURSIVE CaseVariants(_)
CaseVariants(key) ==
    IF Len(key) = 0 THEN {<<>>}
    ELSE LET Rest(q) == {<<c>> \o t : c \in {Head(key), to_ascii_uppercase_byte(Head(key))},
                                      t \in q}
         IN Rest(CaseVariants(Tail(key)))

\* the keys Keyword::parse tells apart
ClassKeys == {S_macro, S_name, S_caption, S_attr \o <<"h">>}
KeyValues == {<<":"," ","v","\n">>, <<":"," ","m"," ","a","\n">>}

KeyInputs ==
    {S_hashplus \o k \o v \o t :
        k \in UNION {CaseVariants(key) : key \in ClassKeys},
        v \in KeyValues, t \in {<<>>, L_text}}

InitKey ==
    /\ InitWith(KeyInputs)
    /\ pc = "parse"

SpecKey == InitKey /\ [][KeywordParse]_vars

\* what a result of Keyword::parse is: the kind of node returned, or the failure
ResultClass(r) ==
    IF r.tag # "ok" THEN <<r.tag>>
    ELSE IF PoolAt(r.P.pool, r.id).obj.expr = "Affiliated"
    THEN <<"Affiliated", PoolAt(r.P.pool, r.id).obj.kind>>
    ELSE <<PoolAt(r.P.pool, r.id).obj.expr>>

\* the buffer with the key of its first line in lower case
LowerKey(buf) ==
    LET Upto(e) == [i \in 1..Len(buf) |->
                       IF i <= e THEN to_ascii_lowercase_byte(buf[i]) ELSE buf[i]]
    IN Upto(ScanUntil(buf, Len(buf), 0, {COLON}))

\* C21: the class Keyword::parse gives a keyword line depends on the
\* lower-cased key only: a line is classified as the line with its key in
\* lower case is, for the keys macro, name, caption and attr_<backend>.
C21_ClassIgnoresCase ==
    (pc \in {"returned", "abort"} /\ calls[1].op = "Keyword::parse") =>
        ResultClass([tag |-> calls[1].tag, P |-> parser, id |-> calls[1].id])
          = ResultClass(Keyword_parse(calls[1].before, LowerKey(text), Len(text),
                                      0, Some(RootId)))

\* ---------------------------------------------------------------------
\* MacroDef::parse called on the rest of a definition line
\* ---------------------------------------------------------------------

\* the length of a macro body
MaxBody == 3

\* the bodies of at most n bytes over a letter, the dollar and two digits
RECURSIVE MacroBodies(_)
MacroBodies(n) ==
    IF n = 0 THEN {<<>>}
    ELSE LET Shorter(q) == q \cup {Append(t, b) : t \in q, b \in {"a", "$", "1", "0"}}
         IN Shorter(MacroBodies(n - 1))

\* the cursor is just after the colon of "#+macro: m BODY\n"
InitDef ==
    /\ input \in MacroBodies(MaxBody) \ {<<>>}
    /\ text = <<" ", "m", " ">> \o input \o <<NEWLINE>>
    /\ parser = NewParser
    /\ cursor = 0
    /\ content = <<>>
    /\ pc = "parse"
    /\ round = 1
    /\ ex = NewOrg
    /\ ret = "none"
    /\ out1 = <<>>
    /\ calls = <<>>
    /\ properties = EmptyMap

\* MacroDef::parse(cursor)
MacroDefParse ==
    LET Returned(r) ==
          /\ calls' = Append(calls, [op |-> "MacroDef::parse", tag |-> r.tag,
                                     obj |-> IF r.tag = "ok" THEN r.obj ELSE <<>>,
                                     end |-> IF r.tag = "ok" THEN r.end ELSE 0])
          /\ pc' = IF r.tag = "abort" THEN "abort" ELSE "returned"
    IN /\ pc = "parse"
       /\ calls = <<>>
       /\ Returned(MacroDef_parse(text, Len(text), cursor))
       /\ UNCHANGED <<input, text, parser, cursor, content, round, ex, ret, out1, properties>>

SpecDef == InitDef /\ [][MacroDefParse]_vars

\* the template of a body from byte i on, the open Text segment starting at
\* from: a dollar followed by a digit 1..9 closes it and adds an ArgNum
RECURSIVE Template(_, _, _)
Template(body, i, from) ==
    IF i > Len(body) THEN <<[t |-> "Text", v |-> SubSeq(body, from, Len(body))]>>
    ELSE IF body[i] = "$" /\ i < Len(body) /\ is_ascii_digit(body[i + 1])
            /\ body[i + 1] # "0"
    THEN <<[t |-> "Text", v |-> SubSeq(body, from, i - 1)],
           [t |-> "ArgNum", v |-> DigitValue(body[i + 1])]>>
         \o Template(body, i + 2, i + 2)
    ELSE Template(body, i + 1, from)

\* the largest argument number of a template, 0 without one
RECURSIVE HighestArg(_)
HighestArg(input_vec) ==
    IF Len(input_vec) = 0 THEN 0
    ELSE Max(IF Head(input_vec).t = "ArgNum" THEN Head(input_vec).v ELSE 0,
             HighestArg(Tail(input_vec)))

\* C22: on "#+macro: NAME BODY" ended by a newline, NAME starting with a
\* letter and BODY not empty, MacroDef::parse returns Ok with the template
\* of BODY: Text and ArgNum segments in turn, Text first and last, an ArgNum
\* for each dollar followed by a digit 1..9, and num_args the largest of them.
C22_TemplateOfBody ==
    pc \in {"returned", "abort"} =>
       /\ calls[1].tag = "ok"
       /\ calls[1].obj.name = <<"m">>
       /\ calls[1].obj.input = Template(input, 1, 1)
       /\ calls[1].obj.num_args = HighestArg(Template(input, 1, 1))

\* ---------------------------------------------------------------------
\* Greater blocks given to the exporter
\* ---------------------------------------------------------------------

\* the sequences of at most n elements of a set
RECURSIVE SeqsUpTo(_, _)
SeqsUpTo(S, n) ==
    IF n = 0 THEN {<<>>}
    ELSE LET Shorter(q) == q \cup {Append(t, x) : t \in q, x \in S}
         IN Shorter(SeqsUpTo(S, n - 1))

S_special == <<"x">>

\* a greater block of some kind with parameters and one-line paragraphs
BlockDocs ==
    [kind : {BlockKind("Center", <<>>), BlockKind("Quote", <<>>),
             BlockKind("Special", S_special)},
     parameters : SeqsUpTo({<< <<"k">>, <<"v">> >>}, 2),
     texts : SeqsUpTo({<<"a">>, <<"b">>}, MaxElems)]

\* the tree of such a document: the root, the block, and for the i-th text
\* a paragraph at id 2 * i holding a Plain at id 2 * i + 1
BlockPool(doc) ==
    [inner_vec |->
        << Node([expr |-> "Root", children |-> <<1>>], 0, 0, None),
           Node(Block(doc.kind, doc.parameters, FALSE,
                      [i \in 1..Len(doc.texts) |-> 2 * i]), 0, 0, Some(0)) >>
        \o Flatten([i \in 1..Len(doc.texts) |->
               << Node([expr |-> "Paragraph", children |-> <<2 * i + 1>>], 0, 0, Some(1)),
                  Node([expr |-> "Plain", text |-> doc.texts[i]], 0, 0, Some(2 * i)) >>]),
     counter |-> 2 + 2 * Len(doc.texts)]

InitBlock ==
    /\ input \in BlockDocs
    /\ text = <<>>
    /\ parser = [NewParser EXCEPT !.pool = BlockPool(input)]
    /\ cursor = 0
    /\ content = <<>>
    /\ pc = "parsed"
    /\ round = 1
    /\ ex = NewOrg
    /\ ret = "none"
    /\ out1 = <<>>
    /\ calls = <<>>
    /\ properties = EmptyMap

SpecBlock == InitBlock /\ [][ExportTree]_vars

\* the name of a greater block kind as written after #+begin_
KindName(bk) ==
    CASE bk.kind = "Center" -> S_center
      [] bk.kind = "Quote" -> S_quote
      [] OTHER -> bk.arg

\* the one layout of a greater block
BlockLayout(doc) ==
    S_begin \o KindName(doc.kind)
    \o Flatten([i \in 1..Len(doc.parameters) |->
                  <<" ", ":">> \o doc.parameters[i][1] \o <<" ">> \o doc.parameters[i][2]])
    \o <<NEWLINE>>
    \o Flatten([i \in 1..Len(doc.texts) |-> doc.texts[i] \o <<NEWLINE>>])
    \o S_end \o KindName(doc.kind) \o <<NEWLINE>>

\* C23: center, quote and special blocks are exported with one layout: the
\* line "#+begin_<kind>" with " :key val" for each parameter, one newline,
\* the children, and the line "#+end_<kind>".
C23_GreaterBlockLayout ==
    pc \in {"exported", "abort"} => ex.out = BlockLayout(input)

\* the width of column c of a table document
TableWidth(d, c) == SetMax({Len(CellText(d, r, c)) : r \in DataRows(d)})

\* C24: a rule row is written as a bar followed, for each column, by
\* width + 2 dashes and a plus, the last column included; it is as long as
\* every other line of the table.
C24_RuleRowFill ==
    (pc = "exported" /\ input.kind = "table") =>
        \A r \in 1..Len(input.rows) :
           input.rows[r] = RuleRow =>
              /\ OutLines[r].line =
                    <<"|">>
                    \o Flatten([c \in 1..MaxRowLen(input.rows) |->
                                  Repeat(<<"-">>, TableWidth(input, c) + 2) \o <<"+">>])
                    \o <<NEWLINE>>
              /\ \A q \in 1..Len(OutLines) : Len(OutLines[q].line) = Len(OutLines[r].line)

\* an exported table with a rule row and a data row of two cells of
\* different lengths
C24_Witness ==
    /\ pc = "exported"
    /\ input.kind = "table"
    /\ \E r, q \in 1..Len(input.rows) :
          /\ input.rows[r] = RuleRow
          /\ input.rows[q] # RuleRow
          /\ Len(input.rows[q]) = 2
          /\ Len(CellText(input, q, 1)) # Len(CellText(input, q, 2))

\* ---------------------------------------------------------------------
\* Tables inside list items given to the exporter
\* ---------------------------------------------------------------------

\* the nesting depths of the item that holds the table
TableDepths == 1..2

\* an item at depth k of d holding a one-line paragraph and then, at the
\* deepest level, the table, above it the list of the next level
RECURSIVE ItemWithTable(_, _, _)
ItemWithTable(rows, k, d) ==
    T_PlainList(<<T_Item(BulletOf(FALSE, 1),
                         <<T_Paragraph(<<T_Plain(<<"z">>)>>),
                           IF k < d THEN ItemWithTable(rows, k + 1, d)
                           ELSE T_Table(MaxRowLen(rows),
                                        [r \in 1..Len(rows) |-> RowTree(rows[r])])>>)>>)

ItemTableDocs ==
    {[kind |-> "table", depth |-> d, rows |-> rows] :
        d \in TableDepths, rows \in LineSeqs(TableRows, MaxRows) \ {<<>>}}

InitItemTable ==
    /\ input \in ItemTableDocs
    /\ text = <<>>
    /\ parser = BuildParser(T_Root(<<ItemWithTable(input.rows, 1, input.depth)>>))
    /\ cursor = 0
    /\ content = <<>>
    /\ pc = "parsed"
    /\ round = 1
    /\ ex = NewOrg
    /\ ret = "none"
    /\ out1 = <<>>
    /\ calls = <<>>
    /\ properties = EmptyMap

SpecItemTable == InitItemTable /\ [][ExportTree]_vars

\* row r of a table document as it is written at column 0
TableLine(d, r) ==
    IF RowLen(d.rows[r]) = 0
    THEN <<"|">>
         \o Flatten([c \in 1..MaxRowLen(d.rows) |->
                       Repeat(<<"-">>, TableWidth(d, c) + 2) \o <<"+">>])
         \o <<NEWLINE>>
    ELSE <<"|">>
         \o Flatten([c \in 1..MaxRowLen(d.rows) |->
                       <<" ">> \o CellText(d, r, c)
                       \o Spaces(TableWidth(d, c) - Len(CellText(d, r, c)))
                       \o <<" ", "|">>])
         \o <<NEWLINE>>

L_caption == <<"#","+","c","a","p","t","i","o","n",":"," ","c","\n">>
L_attr_h == <<"#","+","a","t","t","r","_","h",":"," ","v","\n">>
\* a line of text whose letter is in no other line
L_z == <<"z","\n">>

AffiliatedLines == {L_name, L_caption, L_attr_h, L_z, L_begin_quote, L_end_quote}
AffiliatedInputs == Documents(AffiliatedLines, {<<>>}, MaxLines) \ {<<>>}

InitAffiliated == InitWith(AffiliatedInputs)
NextAffiliated == ParseElement \/ ParseFinish \/ ExportTree
SpecAffiliated == InitAffiliated /\ [][NextAffiliated]_vars

\* C26: the element wrapped by an affiliated keyword is still exported: the
\* export leaves out the keyword lines at most, so every line of text of
\* the document is in the output.
C26_WrappedElementExported ==
    pc = "exported" => CountByte(ex.out, "z") = CountByte(text, "z")

(***************************************************************************)
(* parse_node_property (object/node_property.rs): one line `:name: value`   *)
(* of a property drawer, stored into the PropertyDrawer of the heading.     *)
(* The drawer is a map from names to values.                                *)
(***************************************************************************)
\* Cursor::curr_valid: EofError at the end of the view
curr_valid(buf, lim, index) ==
    IF index < lim THEN [ok |-> TRUE] ELSE MatchErr("EofError")

\* str::ends_with('+') and str::trim_end_matches('+')
ends_with_plus(s) == Len(s) > 0 /\ s[Len(s)] = "+"
RECURSIVE trim_end_matches_plus(_)
trim_end_matches_plus(s) ==
    IF ends_with_plus(s) THEN trim_end_matches_plus(SubSeq(s, 1, Len(s) - 1)) ELSE s

\* variant: an existing entry is left as it is
entry_keep_or_insert(drawer, new_name, val) ==
    IF new_name \in DOMAIN drawer THEN drawer
    ELSE MapInsert(drawer, new_name, val)

\* properties.entry(new_name).and_modify(|n| write!(n, " {val}")).or_insert(val)
entry_and_modify_or_insert(drawer, new_name, val) ==
    IF new_name \in DOMAIN drawer
    THEN MapInsert(drawer, new_name, drawer[new_name] \o <<" ">> \o val)
    ELSE MapInsert(drawer, new_name, val)

PropOk(end, properties_) == [ok |-> TRUE, end |-> end, properties |-> properties_]
PropErr(e, properties_) == [ok |-> FALSE, err |-> e, properties |-> properties_]

parse_node_property(buf, lim, index, drawer) ==
    LET Store(name, val) ==
          IF ends_with_plus(name)
          THEN entry_and_modify_or_insert(drawer, trim_end_matches_plus(name), val)
          ELSE MapInsert(drawer, name, val)
        Val(name, val_match) ==
          IF ~val_match.ok THEN PropErr(val_match.err, drawer)
          ELSE PropOk(val_match.end + 1, Store(name, trim(val_match.obj)))
        AfterName(name, w) ==
          IF ~w.ok THEN PropErr(w.err, drawer)
          ELSE Val(name, fn_until(buf, lim, w.end, {NEWLINE}))
        Name(name_match) ==
          IF ~name_match.ok THEN PropErr(name_match.err, drawer)
          ELSE AfterName(name_match.obj, word(buf, lim, name_match.end, <<":">>))
        AfterColon(w) ==
          IF ~w.ok THEN PropErr(w.err, drawer)
          ELSE Name(fn_until(buf, lim, w.end,
                             {COLON} \cup {c \in AllBytes(buf) : is_ascii_whitespace(c)}))
    IN IF ~curr_valid(buf, lim, index).ok THEN PropErr("EofError", drawer)
       ELSE AfterColon(word(buf, lim, skip_ws(buf, lim, index), <<":">>))

(***************************************************************************)
(* A property drawer read line by line: each call starts where the last     *)
(* one ended, and the reading stops at the first call that fails.           *)
(***************************************************************************)
MaxProps == 3

\* a property line: its bytes, and the name, kind and value it spells
PropLine(raw, name, plus, val) ==
    [raw |-> raw, good |-> TRUE, name |-> name, plus |-> plus, val |-> val]
NotPropLine(raw) ==
    [raw |-> raw, good |-> FALSE, name |-> <<>>, plus |-> FALSE, val |-> <<>>]

PL_N_a == PropLine(<<":","N",":"," ","a","\n">>, <<"N">>, FALSE, <<"a">>)
PL_N_b == PropLine(<<" ",":","N",":"," "," ","b"," ","\n">>, <<"N">>, FALSE, <<"b">>)
PL_N_empty == PropLine(<<":","N",":","\n">>, <<"N">>, FALSE, <<>>)
PL_Nplus_c == PropLine(<<":","N","+",":"," ","c","\n">>, <<"N">>, TRUE, <<"c">>)
PL_Mplus_d == PropLine(<<":","M","+",":","\t","d","\n">>, <<"M">>, TRUE, <<"d">>)
PL_text == NotPropLine(<<"x","\n">>)
PL_unterminated == NotPropLine(<<":","M",":"," ","e">>)

PropLines == {PL_N_a, PL_N_b, PL_N_empty, PL_Nplus_c, PL_Mplus_d, PL_text}
PropDocs == {d \o t : d \in SeqsUpTo(PropLines, MaxProps),
                      t \in {<<>>, <<PL_unterminated>>}}

RawText(lines) == Flatten([i \in 1..Len(lines) |-> lines[i].raw])

InitProp ==
    /\ input \in PropDocs
    /\ text = RawText(input)
    /\ parser = [NewParser EXCEPT !.pool = reserve_id(NewPool).pool]
    /\ cursor = 0
    /\ content = <<>>
    /\ pc = "props"
    /\ round = 1
    /\ ex = NewOrg
    /\ ret = "none"
    /\ out1 = <<>>
    /\ calls = <<>>
    /\ properties = EmptyMap

ParseNodeProperty ==
    /\ pc = "props"
    /\ LET Return(r) ==
             /\ calls' = Append(calls, [op |-> "parse_node_property", ok |-> r.ok,
                                        index |-> cursor,
                                        end |-> IF r.ok THEN r.end ELSE cursor,
                                        before |-> properties])
             /\ properties' = r.properties
             /\ cursor' = IF r.ok THEN r.end ELSE cursor
             /\ pc' = IF r.ok THEN "props" ELSE "failed"
       IN Return(parse_node_property(text, Len(text), cursor, properties))
    /\ UNCHANGED <<input, text, parser, content, round, ex, ret, out1>>

SpecProp == InitProp /\ [][ParseNodeProperty]_vars

\* the number of calls that returned Ok: the lines read so far
LinesRead == Cardinality({i \in DOMAIN calls : calls[i].ok})

\* offset one past the newline of line i
LineEnd(lines, i) == Len(RawText(SubSeq(lines, 1, i)))

\* the lines among the first k that name N, by kind
SetLines(lines, k, N) == {j \in 1..k : lines[j].name = N /\ ~lines[j].plus}
PlusLines(lines, k, N) == {j \in 1..k : lines[j].name = N /\ lines[j].plus}

SetMin(S) == CHOOSE x \in S : \A y \in S : x <= y

\* the line the value of N starts from: the last `:N:` line, or the first
\* `:N+:` line when there is no `:N:` line
BaseLine(lines, k, N) ==
    IF SetLines(lines, k, N) # {} THEN SetMax(SetLines(lines, k, N))
    ELSE SetMin(PlusLines(lines, k, N))

RECURSIVE Appended(_, _, _, _)
Appended(lines, from, k, N) ==
    IF from > k THEN <<>>
    ELSE (IF lines[from].name = N /\ lines[from].plus
          THEN <<" ">> \o lines[from].val ELSE <<>>)
         \o Appended(lines, from + 1, k, N)

DrawerNames(lines, k) == {lines[j].name : j \in 1..k}
DrawerValue(lines, k, N) ==
    LET From(b) == lines[b].val \o Appended(lines, b + 1, k, N)
    IN From(BaseLine(lines, k, N))

\* C27: after any sequence of property lines the value of a name N is the
\* trimmed value of the last line `:N: v` followed, for each later line
\* `:N+: w` in order, by one space and w (a `:N+:` line with no entry for N
\* creates N with value w); each successful call returns the index one past
\* the newline of its line; a failing call leaves the drawer unchanged.
C27_DrawerOfLines ==
    /\ DOMAIN properties = DrawerNames(input, LinesRead)
    /\ \A N \in DOMAIN properties :
         properties[N] = DrawerValue(input, LinesRead, N)
    /\ \A i \in DOMAIN calls :
         IF calls[i].ok THEN calls[i].end = LineEnd(input, i)
         ELSE i = Len(calls) /\ properties = calls[i].before

\* a `:N:` line with padding, a `:N+:` line after it, then a failing call
C27_Witness ==
    /\ pc = "failed"
    /\ LinesRead = 2
    /\ <<"N">> \in DOMAIN properties
    /\ properties[<<"N">>] = <<"b", " ", "c">>

\* a `:M+:` line with no earlier entry creates M
C27_WitnessCreated ==
    /\ LinesRead >= 1
    /\ <<"M">> \in DOMAIN properties
    /\ properties[<<"M">>] = <<"d">>
    /\ SetLines(input, LinesRead, <<"M">>) = {}

(***************************************************************************)
(* Export into a sink that refuses a write: a sink with room for MaxRoom    *)
(* bytes or fewer is handed to export_tree in place of a String.            *)
(***************************************************************************)
MaxRoom == 3

InitCut ==
    /\ input \in ExportDocs
    /\ text = <<>>
    /\ parser = BuildParser(DocTree(input))
    /\ cursor = 0
    /\ content = <<>>
    /\ pc = "parsed"
    /\ round = 1
    /\ ex \in {OrgOn(room) : room \in 0..MaxRoom}
    /\ ret = "none"
    /\ out1 = <<>>
    /\ calls = <<>>
    /\ properties = EmptyMap

\* Org::export_tree(&parsed, buf, conf) with the sink of the initial state
ExportTreeInto ==
    LET Exported(r) ==
          /\ ex' = r.st
          /\ ret' = r.ret
          /\ out1' = r.st.out
          /\ pc' = IF r.st.panic THEN "abort" ELSE "exported"
    IN /\ pc = "parsed"
       /\ Exported(export_tree_into(parser, ex.room))
       /\ UNCHANGED <<input, text, parser, cursor, content, round, calls, properties>>

SpecCut == InitCut /\ [][ExportTreeInto]_vars

\* C28: if a write to the output buffer fails during the export, export_tree
\* reports a failure to its caller: it never returns Ok after the output was
\* cut short by a write error.
C28_WriteErrorReported ==
    (pc = "exported" /\ ex.cut) => ret = "Err"

(***************************************************************************)
(* The indentation level during the export of lists.  The lists of          *)
(* ListDocs are exported by one call of export_tree.  A chain of items      *)
(* nested as deep as a u8 counts, or deeper, is exported call by call:      *)
(* cursor is the node whose export_rec is entered next (pc = "down") or has *)
(* just returned (pc = "up"), content holds the level found by each call    *)
(* on an item that has not returned yet.  Either build runs the export.     *)
(***************************************************************************)
DeepDepths == {1, 2, U8Max - 1, U8Max, U8Max + 1, U8Max + 2}

\* the tree of a list of one item that holds a list of one item ..., d items
\* deep, the innermost item holding a line of text: node 0 is the root, node
\* 2k - 1 the k-th list, node 2k its item, then the paragraph and its text
ChainNode(id, d) ==
    CASE id = 0 -> Node([expr |-> "Root", children |-> <<1>>], 0, 2 * d + 2, None)
      [] id = 2 * d + 1 ->
           Node([expr |-> "Paragraph", children |-> <<id + 1>>], 2 * d, 2 * d + 2,
                Some(id - 1))
      [] id = 2 * d + 2 ->
           Node([expr |-> "Plain", text |-> <<"z">>], 2 * d, 2 * d + 1, Some(id - 1))
      [] id % 2 = 1 ->
           Node([expr |-> "PlainList", children |-> <<id + 1>>], id - 1, 2 * d + 2,
                Some(id - 1))
      [] OTHER ->
           Node([expr |-> "Item", bullet |-> BulletOf(FALSE, 1), counter_set |-> None,
                 check_box |-> None, tag |-> None, children |-> <<id + 1>>],
                id - 2, 2 * d + 2, Some(id - 1))

ChainPool(d) ==
    [inner_vec |-> [i \in 1..(2 * d + 3) |-> ChainNode(i - 1, d)],
     counter |-> 2 * d + 3]

DeepDocs == {[kind |-> "deep", depth |-> d] : d \in DeepDepths}

InitLevel ==
    /\ input \in ListDocs \cup DeepDocs
    /\ text = <<>>
    /\ parser = IF input.kind = "deep"
                THEN [NewParser EXCEPT !.pool = ChainPool(input.depth)]
                ELSE BuildParser(ListTree(input))
    /\ cursor = RootId
    /\ content = <<>>
    /\ pc = IF input.kind = "deep" THEN "down" ELSE "parsed"
    /\ round = 1
    /\ ex \in {OrgBuilt(Unlimited, checks) : checks \in BOOLEAN}
    /\ ret = "none"
    /\ out1 = <<>>
    /\ calls = <<>>
    /\ properties = EmptyMap

\* Org::export_tree(&parsed, buf, conf) as the build of the initial state runs it
ExportTreeBuilt ==
    LET Exported(r) ==
          /\ ex' = r.st
          /\ ret' = r.ret
          /\ out1' = r.st.out
          /\ pc' = IF r.st.panic THEN "abort" ELSE "exported"
    IN /\ pc = "parsed"
       /\ Exported(export_tree_from(parser, OrgBuilt(ex.room, ex.overflow_checks)))
       /\ UNCHANGED <<input, text, parser, cursor, content, round, calls, properties>>

\* export_rec is entered on the node at cursor: a root or a list goes on to
\* its child, an item writes its head and raises the level before it goes
\* on to its child, a paragraph is exported whole
EnterNode ==
    LET node == PoolAt(parser.pool, cursor)
        Item(s) ==
          /\ ex' = s
          /\ content' = Append(content, Self(ex).indentation_level)
          /\ cursor' = IF s.panic THEN cursor ELSE node.obj.children[1]
          /\ pc' = IF s.panic THEN "abort" ELSE "down"
    IN /\ pc = "down"
       /\ CASE node.obj.expr = "Item" -> Item(ItemIndent(ItemHead(ex, node.obj), 1))
            [] node.obj.expr = "Paragraph" ->
                 /\ ex' = export_rec(ex, parser, cursor)
                 /\ pc' = "up"
                 /\ UNCHANGED <<cursor, content>>
            [] OTHER ->
                 /\ cursor' = node.obj.children[1]
                 /\ UNCHANGED <<ex, content, pc>>
       /\ UNCHANGED <<input, text, parser, round, ret, out1, calls, properties>>

\* the call on the node at cursor has returned Ok to the call on its parent:
\* the loop over the children of the parent is at its end; an item lowers the
\* level, and the call on the parent returns
ReturnNode ==
    LET parent == Unwrap(PoolAt(parser.pool, cursor).parent)
        Item(s) ==
          /\ ex' = [s EXCEPT !.visits =
                       Append(@, [id |-> parent, frame |-> 1, ok |-> ~s.panic,
                                  found |-> content[Len(content)],
                                  left |-> Self(s).indentation_level])]
          /\ content' = SubSeq(content, 1, Len(content) - 1)
          /\ pc' = IF s.panic THEN "abort" ELSE "up"
    IN /\ pc = "up"
       /\ cursor # RootId
       /\ cursor' = parent
       /\ IF PoolAt(parser.pool, parent).obj.expr = "Item"
          THEN Item(ItemDedent(ex, 1))
          ELSE UNCHANGED <<ex, content, pc>>
       /\ UNCHANGED <<input, text, parser, round, ret, out1, calls, properties>>

\* org.rs 58-64: the call on the root has returned to export_tree
ReturnTree ==
    /\ pc = "up"
    /\ cursor = RootId
    /\ pc' = "exported"
    /\ ret' = IF Len(Self(ex).errors) = 0 THEN "Ok" ELSE "Err"
    /\ out1' = ex.out
    /\ UNCHANGED <<input, text, parser, cursor, content, round, ex, calls, properties>>

NextLevel == ExportTreeBuilt \/ EnterNode \/ ReturnNode \/ ReturnTree
SpecLevel == InitLevel /\ [][NextLevel]_vars

\* the number of list items that enclose the node id (the node itself is not
\* counted)
RECURSIVE ItemsAbove(_, _)
ItemsAbove(pool, id) ==
    LET Up(parent) ==
          IF ~IsSome(parent) THEN 0
          ELSE (IF PoolAt(pool, Unwrap(parent)).obj.expr = "Item" THEN 1 ELSE 0)
               + ItemsAbove(pool, Unwrap(parent))
    IN Up(PoolAt(pool, id).parent)

\* C29: during an export the indentation level is the number of list items
\* that enclose the node being exported: each call of export_rec that
\* returns Ok leaves the level as it found it, the level is 0 when the
\* top-level call returns, on_newline is false once the level is back at 0
\* after an item, and the u8 level does not overflow at any nesting depth
\* (the export neither stops on an overflow nor goes on with a wrapped level).
C29_LevelCountsItems ==
    /\ pc # "abort"
    /\ input.kind = "list" =>
         \A i \in DOMAIN ex.visits :
            ex.visits[i].found = ItemsAbove(parser.pool, ex.visits[i].id)
    /\ (input.kind = "deep" /\ pc \in {"down", "up"}) =>
         Self(ex).indentation_level = Len(content)
    /\ \A i \in DOMAIN ex.visits :
         ex.visits[i].ok => ex.visits[i].left = ex.visits[i].found
    /\ pc = "exported" =>
         /\ Self(ex).indentation_level = 0
         /\ ~Self(ex).on_newline

\* the same for lists and chains that nest less deep than a u8 counts
C29_BelowU8Max ==
    (input.kind = "list" \/ input.depth <= U8Max) => C29_LevelCountsItems

(***************************************************************************)
(* The end-marker search of Block::parse, seen from the buffer a call of    *)
(* Block::parse was made on.                                                *)
(***************************************************************************)
\* the opening line of the buffer as Block::parse reads it
OpeningHeader == BlockHeader(text, Len(text), 0)
OpeningParameters == BlockParameters(text, Len(text), OpeningHeader.curr_ind)

\* Block::parse was called and has read an opening line up to its newline
SearchStarted ==
    /\ pc \in {"returned", "abort"}
    /\ calls[1].op = "Block::parse"
    /\ OpeningHeader.tag = "ok"
    /\ OpeningParameters.tag = "ok"

\* the offset of the newline that ends the opening line, and the candidates:
\* the occurrences of the end marker after it, as offsets from the byte after it
OpeningNewline == OpeningParameters.curr_ind
Candidates ==
    find_iter(text, Len(text), OpeningNewline + 1,
              BlockNeedle(OpeningHeader.bk, OpeningHeader.name))

\* the byte before the k-th candidate, where the walk back starts
WalkStart(k) == Candidates[k] + OpeningNewline

\* the offsets at or before `from` whose byte is a newline or no whitespace
\* at all: the walk back from `from` stops at the last of them
WalkStops(from) ==
    {j \in 0..from : text[j + 1] = NEWLINE \/ ~is_ascii_whitespace(text[j + 1])}

\* the candidates the walk accepts
Accepted ==
    {k \in 1..Len(Candidates) :
        WalkStops(WalkStart(k)) # {} /\ text[SetMax(WalkStops(WalkStart(k))) + 1] = NEWLINE}

\* C30: the end-marker search of Block::parse terminates on every input: the
\* candidates lie one after the other and the search ends at the first one
\* accepted or after the last; the walk back from a candidate stops at a
\* newline at or after the newline that ends the #+begin_ line, or at a byte
\* that is no whitespace after that newline, so no index before that newline
\* or below 0 is read.
C30_WalkStopsAfterOpening ==
    SearchStarted =>
      /\ text[OpeningNewline + 1] = NEWLINE
      /\ \A k \in 1..Len(Candidates) :
           /\ k > 1 => Candidates[k - 1] < Candidates[k]
           /\ WalkStops(WalkStart(k)) # {}
           /\ SetMax(WalkStops(WalkStart(k))) >= OpeningNewline
           /\ WalkBack(text, Len(text), WalkStart(k)) =
                IF k \in Accepted
                THEN [tag |-> "loc", loc |-> SetMax(WalkStops(WalkStart(k)))]
                ELSE [tag |-> "reject"]
      /\ LET Searched(s) ==
               IF Accepted = {} THEN s.tag = "none"
               ELSE /\ s.tag = "found"
                    /\ \E k \in Accepted :
                         /\ \A j \in Accepted : k <= j
                         /\ s.loc = SetMax(WalkStops(WalkStart(k)))
         IN Searched(EndSearch(text, Len(text), Candidates, 1, OpeningNewline + 1,
                               Len(BlockNeedle(OpeningHeader.bk, OpeningHeader.name))))

\* a first candidate that follows text on its line is passed over, a second
\* one after whitespace is accepted by a walk of more than one byte
C30_Witness ==
    /\ SearchStarted
    /\ Len(Candidates) >= 2
    /\ 1 \notin Accepted
    /\ 2 \in Accepted
    /\ SetMax(WalkStops(WalkStart(2))) < WalkStart(2)
    /\ calls[1].tag = "ok"

\* a candidate right after the opening line: the walk stops at once, at the
\* newline of the opening line
C30_WitnessAtOpening ==
    /\ SearchStarted
    /\ Len(Candidates) >= 1
    /\ WalkStart(1) = OpeningNewline
    /\ 1 \in Accepted

====
